---- MODULE Spec2Model ----
(***************************************************************************)
(* A model of the 4FS wrapper class FourFS (fourgp_fourfs/fourfs.py): the  *)
(* exposure manifest written by generate_4fs_template_list, the metadata   *)
(* store, the arm combiner combine_spectra and the driver process_spectra. *)
(*                                                                         *)
(* Encodings.                                                              *)
(*  - An SNR value is an integer number of hundredths (20.04 is 2004).     *)
(*    '{:.1f}'.format(snr) is Fmt1(snr), the number of tenths it prints.   *)
(*  - A Python dictionary is a function whose DOMAIN is its key set.       *)
(*  - A metadata value is a record [tag, s, n]: a string, a number, NaN or *)
(*    None, so that values of different Python types can be compared.      *)
(*  - A Python object that can be aliased (a metadata dictionary, a flux   *)
(*    array) lives in heap under a reference; two names alias iff they     *)
(*    hold one reference. A flux value is an exact fraction [n, d].        *)
(*  - A line of 4FS_ETC_summary.txt is the sequence of its words.          *)
(***************************************************************************)
EXTENDS Integers, Sequences, FiniteSets, TLC

\* ------------------------------------------------------------------ bounds
\* Templates one FourFS instance allocates over its life.
MaxTemplates == 2
\* Length of one spectra_list handed to a call.
MaxBatch == 2
\* Length of snr_list.
MaxSnrs == 2
\* Calls made on one instance.
MaxCalls == 2
\* FourFS instances constructed in one process.
MaxInstances == 2
\* Operations made on the instances of one process.
MaxOps == 4

\* ------------------------------------------------------------- value model
None == "<None>"

StrVal(s) == [tag |-> "str", s |-> s, n |-> 0]
NumVal(n) == [tag |-> "num", s |-> "", n |-> n]
NaN == [tag |-> "nan", s |-> "", n |-> 0]
NoneVal == [tag |-> "none", s |-> "", n |-> 0]

\* A Python bool; in arithmetic True is 1 and False is 0.
BoolVal(b) == [tag |-> "bool", s |-> "", n |-> IF b THEN 1 ELSE 0]

\* A band's definition as a metadata value: a str, or None.
DefVal(d) == IF d = None THEN NoneVal ELSE StrVal(d)

\* SNR values a caller may request, in hundredths: 10 and 20.04.
SnrValues == {1000, 2004}

\* '{:.1f}'.format(snr): the value rounded to tenths (no value of SnrValues
\* lies on a rounding tie).
Fmt1(snr) == (snr + 5) \div 10

\* The magnitude argument of the constructor (default 14).
Magnitude == 14

\* Names of SNR definitions, and the per-band choices of the constructor's
\* lrs_use_snr_definitions / hrs_use_snr_definitions: a name, "" or None.
DefNames == {"A", "B"}

\* isinstance(i, str) and len(i) > 0
NonEmptyDef(d) == d # None /\ d # ""

\* ------------------------------------------------------ sequence helpers
RECURSIVE Concat(_)
Concat(ss) == IF ss = <<>> THEN <<>> ELSE Head(ss) \o Concat(Tail(ss))

Range(s) == {s[k] : k \in DOMAIN s}

Reverse(s) == [k \in 1..Len(s) |-> s[Len(s) + 1 - k]]

\* All orders in which the elements of a finite set can be listed.
RECURSIVE Orderings(_)
Orderings(S) ==
    IF S = {} THEN {<<>>}
    ELSE UNION {{<<x>> \o o : o \in Orderings(S \ {x})} : x \in S}

\* dict d with d[k] = v
DictSet(d, k, v) == [x \in DOMAIN d \cup {k} |-> IF x = k THEN v ELSE d[x]]

VARIABLES
    snr_list,                  \* self.snr_list
    run_lrs, run_hrs,          \* self.run_lrs, self.run_hrs
    lrs_use_snr_definitions,   \* (red, green, blue), <<>> when LRS is off
    hrs_use_snr_definitions,   \* (red, green, blue), <<>> when HRS is off
    distinct_snr_definitions,  \* the set, as the order its iteration yields
    template_counter,          \* self.template_counter
    metadata_store,            \* self.metadata_store: template id -> reference
    heap,                      \* reference -> metadata dictionary or flux array
    manifest,                  \* request lines of template_list_test.txt
    outdir,                    \* mode -> the simulator's output directory
    ret,                       \* the last call: its arguments, what it returned or raised
    calls,                     \* calls made so far
    cwd,                       \* os.getcwd(): the process's working directory
    instances,                 \* the FourFS objects of one process, by handle
    tmp,                       \* /tmp: id_string -> working directory
    done,                      \* the last operation on an instance of the process
    job,                       \* one pass of the combiner's loop body: its inputs
    stitched                   \* the arrays that pass computed

vars == <<snr_list, run_lrs, run_hrs, lrs_use_snr_definitions,
          hrs_use_snr_definitions, distinct_snr_definitions, template_counter,
          metadata_store, heap, manifest, outdir, ret, calls, cwd, instances, tmp,
          done, job, stitched>>

\* The variables of the process-wide view: several instances and /tmp.
process_vars == <<instances, tmp, done>>

\* The variables of the view of one pass of the combiner on pixel data.
stitch_vars == <<job, stitched>>

\* The variables of the single instance whose calls are followed in detail.
instance_vars == <<snr_list, run_lrs, run_hrs, lrs_use_snr_definitions,
                   hrs_use_snr_definitions, distinct_snr_definitions, template_counter,
                   metadata_store, heap, manifest, outdir, ret, calls, cwd>>

config == <<snr_list, run_lrs, run_hrs, lrs_use_snr_definitions,
            hrs_use_snr_definitions, distinct_snr_definitions>>

\* ------------------------------------------------------------ the caller
\* The caller's Spectrum objects. Spectrum 1 carries only its star name and
\* has no continuum-normalised companion; spectrum 2 was degraded before,
\* already carries an 'SNR' entry, and has a companion.
Stars == {1, 2}

CallerRef(s) == [k |-> "caller", m |-> "", i |-> s, j |-> 0, cn |-> 0]
StoreRef(t) == [k |-> "store", m |-> "", i |-> t, j |-> 0, cn |-> 0]
OutRef(setup, i, rc, cn) == [k |-> "out", m |-> setup, i |-> i, j |-> rc, cn |-> cn]

CallerRefs == {CallerRef(s) : s \in Stars}

CallerMetadata(s) ==
    IF s = 1 THEN [x \in {"Starname"} |-> StrVal("s1")]
    ELSE [x \in {"Starname", "SNR"} |->
            IF x = "Starname" THEN StrVal("s2") ELSE NumVal(9900)]

\* The wavelength raster of the caller's spectrum s, in Angstrom.
Raster(s) == IF s = 1 THEN <<5000, 7000>> ELSE <<4000, 5000, 6000>>

\* A raster that differs from Raster(2) in one sample.
ShiftedRaster == <<4000, 5000, 6001>>

\* Spectrum.raster_hash: a content hash of the wavelength sequence, equal for
\* two spectra exactly when their rasters are equal.
RasterHash(wavelengths) == wavelengths

\* Flux values are exact fractions n/d in lowest terms, d > 0.
RECURSIVE GCD(_, _)
GCD(a, b) == IF b = 0 THEN a ELSE GCD(b, a % b)

Frac(n, d) == [n |-> n \div GCD(n, d), d |-> d \div GCD(n, d)]
Whole(n) == [n |-> n, d |-> 1]
FracAdd(a, b) == Frac(a.n * b.d + b.n * a.d, a.d * b.d)
FracMul(a, b) == Frac(a.n * b.n, a.d * b.d)
FracDiv(a, b) == Frac(a.n * b.d, a.d * b.n)

\* The numpy arrays the caller's spectra hold as .values: that of spectrum s
\* and that of its continuum-normalised companion.
FluxRef(s) == [k |-> "values", m |-> "", i |-> s, j |-> 0, cn |-> 0]
ContinuumFluxRef(s) == [k |-> "values", m |-> "", i |-> s, j |-> 0, cn |-> 1]

ArrayRefs == {FluxRef(s) : s \in Stars} \cup {ContinuumFluxRef(2)}

\* The flux the caller's spectra have when they are handed over, one value
\* per sample of Raster(s); positive everywhere.
CallerValues(r) ==
    IF r = FluxRef(1) THEN <<Whole(2), Whole(6)>>
    ELSE IF r = FluxRef(2) THEN <<Whole(3), Whole(4), Whole(5)>>
    ELSE <<Whole(1), Frac(1, 2), Whole(1)>>

\* The caller's objects: the metadata dictionaries and the flux arrays.
CallerHeap ==
    [r \in CallerRefs \cup ArrayRefs |->
        IF r \in CallerRefs THEN CallerMetadata(r.i) ELSE CallerValues(r)]

\* A spectra_list entry: (input_spectrum, input_spectrum_continuum_normalised),
\* the companion being None or a Spectrum; raster is the companion's raster.
Pairs ==
    {[star |-> 1, cont |-> FALSE, raster |-> <<>>],
     [star |-> 2, cont |-> TRUE, raster |-> Raster(2)]}

\* A pair whose companion is sampled on another raster than its spectrum.
MismatchedPair == [star |-> 2, cont |-> TRUE, raster |-> ShiftedRaster]

RECURSIVE SeqsUpTo(_, _)
SeqsUpTo(S, n) ==
    IF n = 0 THEN {<<>>}
    ELSE LET shorter == SeqsUpTo(S, n - 1)
         IN  shorter \cup {Append(q, x) : q \in {r \in shorter : Len(r) = n - 1}, x \in S}

\* ------------------------------------------------- the working directory
\* The instance's working directory tmp_dir: the template FITS files in it
\* (file name -> content), the manifest template_list_test.txt (its lines, or
\* <<>> before it is written), the configuration files the constructor wrote
\* and what the simulator runs left (outdir_<mode>, <mode>_output.log).
NoDir == [exists |-> FALSE, templates |-> <<>>, template_list |-> <<>>, params |-> {},
          outputs |-> {}]

\* mkdir -p of a directory that does not exist.
NewDir == [NoDir EXCEPT !.exists = TRUE]

\* identifier arguments of the constructor; "x" is the default.
Identifiers == {"x", "y"}

\* self.id_string = "4fs_{:d}_{}".format(os.getpid(), identifier); every
\* instance of a process gets the same pid.
IdString(identifier) == "4fs_pid_" \o identifier

\* self.tmp_dir = os_path.join("/tmp", self.id_string)
TmpDir(id_string) == "/tmp/" \o id_string

\* The directory the caller works in.
CallerCwd == "/home/user"

\* The working directory of a process whose directory has been removed:
\* os.getcwd() raises FileNotFoundError.
Deleted == "(deleted)"

\* A handle the caller has not bound to an object yet.
NoInstance ==
    [phase |-> "new", id_string |-> "", template_counter |-> 0,
     metadata_store |-> <<>>, heap |-> <<>>, distinct_snr_definitions |-> <<>>]

\* No operation made yet.
NoOperation(tree) ==
    [op |-> "none", self |-> 0, status |-> "ok", exc |-> "", spectra_list |-> <<>>,
     resolution |-> NoneVal, use |-> <<>>, before |-> tree, step |-> 0]

\* A process that has constructed no instance; /tmp holds no directory of its.
ProcessInit ==
    /\ instances = [k \in 1..MaxInstances |-> NoInstance]
    /\ tmp = [d \in {IdString(i) : i \in Identifiers} |-> NoDir]
    /\ done = NoOperation(tmp)

\* No pass of the combiner is looked at.
NoJob == [setup |-> "", use |-> <<>>,
          dir |-> [exists |-> FALSE, files |-> {}, summary |-> <<>>, tables |-> <<>>]]

NotStitched ==
    [status |-> "pending", exc |-> "", opened |-> <<>>, indices |-> <<>>,
     wavelengths_final |-> <<>>, fluxes_final |-> <<>>, snrs_final |-> <<>>,
     have_continuum_version |-> FALSE, raw |-> <<>>, normalised |-> <<>>]

StitchIdle == job = NoJob /\ stitched = NotStitched

\* ------------------------------------------------------------ __init__
\* Constructor arguments: which modes run, and the (red, green, blue)
\* definitions of each mode.
Triple(r, g, b) == <<r, g, b>>

ConstructorArgs ==
    { [run_lrs |-> TRUE,  run_hrs |-> FALSE, lrs |-> Triple("A", "A", "A"), hrs |-> Triple("A", "A", "A")],
      [run_lrs |-> FALSE, run_hrs |-> TRUE,  lrs |-> Triple("A", "A", "A"), hrs |-> Triple("A", "A", "A")],
      [run_lrs |-> TRUE,  run_hrs |-> TRUE,  lrs |-> Triple("A", "A", "A"), hrs |-> Triple("B", "B", "B")],
      [run_lrs |-> TRUE,  run_hrs |-> FALSE, lrs |-> Triple("A", "A", "B"), hrs |-> Triple("A", "A", "A")],
      [run_lrs |-> FALSE, run_hrs |-> TRUE,  lrs |-> Triple("A", "A", "A"), hrs |-> Triple(None, "A", "A")],
      [run_lrs |-> TRUE,  run_hrs |-> FALSE, lrs |-> Triple("", "A", "B"),  hrs |-> Triple("A", "A", "A")],
      [run_lrs |-> TRUE,  run_hrs |-> TRUE,  lrs |-> Triple(None, None, None), hrs |-> Triple("A", "A", "A")],
      [run_lrs |-> FALSE, run_hrs |-> TRUE,  lrs |-> Triple("A", "A", "A"), hrs |-> Triple("", "", "")] }

\* self.lrs_use_snr_definitions = lrs_use_snr_definitions if run_lrs else []
UseIfRun(use, run) == IF run THEN use ELSE <<>>

\* A set built from the LRS definitions alone.
DistinctDefsOfLrs(lrs, hrs) == {d \in Range(lrs) : NonEmptyDef(d)}

\* set([i for i in lrs + hrs if isinstance(i, str) and len(i) > 0])
DistinctDefs(lrs, hrs) == {d \in Range(lrs \o hrs) : NonEmptyDef(d)}

Init ==
    /\ snr_list \in SeqsUpTo(SnrValues, MaxSnrs) \ {<<>>}
    /\ \E a \in ConstructorArgs :
          /\ run_lrs = a.run_lrs
          /\ run_hrs = a.run_hrs
          /\ lrs_use_snr_definitions = UseIfRun(a.lrs, a.run_lrs)
          /\ hrs_use_snr_definitions = UseIfRun(a.hrs, a.run_hrs)
    \* A Python set of str iterates in an order fixed per process by the
    \* string hash seed: any order, the same one at every iteration.
    /\ distinct_snr_definitions \in
          Orderings(DistinctDefs(lrs_use_snr_definitions, hrs_use_snr_definitions))
    /\ template_counter = 0
    /\ metadata_store = <<>>
    /\ heap = CallerHeap
    /\ manifest = <<>>
    /\ outdir = [m \in {"LRS", "HRS"} |-> [exists |-> FALSE, files |-> {}, summary |-> <<>>,
                                             tables |-> <<>>]]
    /\ ret = [call |-> "init", status |-> "ok", exc |-> "", spectra_list |-> <<>>,
              template_numbers |-> <<>>, output |-> <<>>, trace |-> <<>>]
    /\ calls = 0
    /\ cwd = CallerCwd
    /\ ProcessInit
    /\ StitchIdle

\* ------------------------------------------- generate_4fs_template_list
\* Object names of the manifest, which 4FS repeats in its output file names:
\* 'template_{}_SNR{:.1f}_{}' and 'template_{}_c'.
SignalName(t, snr, d) == [t |-> t, c |-> FALSE, snr |-> Fmt1(snr), def |-> d]
ContinuumName(t) == [t |-> t, c |-> TRUE, snr |-> 0, def |-> ""]

\* 'template_{}.fits' and 'template_{}_c.fits' in tmp_dir.
TemplateFile(t, c) == [t |-> t, c |-> c]

\* One manifest line: OBJECTNAME, FILENAME, RULESET (the remaining columns
\* are the constants '0.0', '0.0', reference_magnitude, magnitude).
SignalLine(t, snr, d) ==
    [name |-> SignalName(t, snr, d),
     file |-> TemplateFile(t, FALSE),
     ruleset |-> [c |-> FALSE, snr |-> Fmt1(snr), def |-> d]]

ContinuumLine(t) ==
    [name |-> ContinuumName(t),
     file |-> TemplateFile(t, TRUE),
     ruleset |-> [c |-> TRUE, snr |-> 0, def |-> ""]]

\* for snr_definition in self.distinct_snr_definitions:
\*     for snr in self.snr_list: writestr += ...
SignalLines(t, defs, snrs) ==
    Concat([a \in 1..Len(defs) |->
              [b \in 1..Len(snrs) |-> SignalLine(t, snrs[b], defs[a])]])

\* A loop body that requests the continuum-only exposure for every template.
TemplateLinesAlwaysContinuum(t, cont, defs, snrs) ==
    SignalLines(t, defs, snrs) \o <<ContinuumLine(t)>>

\* The lines one pass of the loop body appends for template t.
TemplateLines(t, cont, defs, snrs) ==
    SignalLines(t, defs, snrs) \o (IF cont THEN <<ContinuumLine(t)>> ELSE <<>>)

\* A store that keeps the caller's dictionary itself (no .copy()).
StoreCallersObject(h, store, t, star) ==
    [heap |-> h, store |-> DictSet(store, t, CallerRef(star))]

\* self.metadata_store[self.template_counter] = input_spectrum.metadata.copy():
\* a new dictionary object, equal to the caller's.
StoreCopy(h, store, t, star) ==
    [heap |-> DictSet(h, StoreRef(t), h[CallerRef(star)]),
     store |-> DictSet(store, t, StoreRef(t))]

\* The resolution argument of generate_4fs_template_list (default 50000).
DefaultResolution == NumVal(50000)

RECURSIVE Sum(_)
Sum(w) == IF w = <<>> THEN 0 ELSE Head(w) + Sum(Tail(w))

\* np.mean(wavelength_raster / resolution) as the fraction n/d, resolution
\* being a number or a bool; d = 0 stands for the inf a division by False gives.
FwhmRes(wavelength_raster, resolution) ==
    [n |-> Sum(wavelength_raster), d |-> Len(wavelength_raster) * resolution.n]

\* Lines 231-241: the header cards that depend on the arguments.
Header(wavelength_raster, resolution) ==
    IF resolution # NoneVal
    THEN [x \in {"RESOLUTN"} |-> FwhmRes(wavelength_raster, resolution)]
    ELSE <<>>

\* hdu_1.header['RESOLUTN'] = fwhm_res (line 241) with fwhm_res = inf: the
\* FITS library raises ValueError, floating point inf values not being
\* allowed in FITS headers.
HeaderRefused(wavelength_raster, resolution) ==
    resolution # NoneVal /\ FwhmRes(wavelength_raster, resolution).d = 0

\* The band flux of a spectrum at reference_magnitude, in the units of
\* CallerValues.
ReferenceFlux == 24

RECURSIVE FracSum(_)
FracSum(data) == IF data = <<>> THEN Whole(0) ELSE FracAdd(Head(data), FracSum(Tail(data)))

\* Spectrum.photometry(band) gives -2.5 log10 of the flux through the band,
\* up to the zero point; the band covers every sample of the raster.
BandFlux(data) == FracSum(data)

\* pow(10, -0.4 * (self.reference_magnitude - magnitude)): the ratio of the
\* band flux at the reference magnitude to the band flux of data.
ScaleFactor(data) == FracDiv(Whole(ReferenceFlux), BandFlux(data))

\* Lines 199-212: data is the array input_spectrum.values itself, or the new
\* array flux / continuum_normalised_flux of a continuum-only template.
TemplateData(h, pair, continuum_only) ==
    IF pair.cont /\ continuum_only
    THEN [alias |-> FALSE,
          values |-> [x \in DOMAIN h[FluxRef(pair.star)] |->
                        FracDiv(h[FluxRef(pair.star)][x], h[ContinuumFluxRef(pair.star)][x])]]
    ELSE [alias |-> TRUE, values |-> h[FluxRef(pair.star)]]

\* data * factor, sample by sample.
Scaled(values, factor) == [x \in DOMAIN values |-> FracMul(values[x], factor)]

\* Line 228: data *= ..., the in-place multiplication of the array named
\* data; when that is input_spectrum.values, of the caller's array.
Renormalise(h, pair, data) ==
    [heap |-> IF data.alias
              THEN [h EXCEPT ![FluxRef(pair.star)] =
                       Scaled(data.values, ScaleFactor(data.values))]
              ELSE h,
     values |-> Scaled(data.values, ScaleFactor(data.values))]

\* Lines 231-244: the header, whose RESOLUTN card may be refused, then
\* hdu_list.writeto, which raises when tmp_dir is gone or the file exists.
WriteTemplate(dir, pair, output_filename, resolution, continuum_only, renormalised) ==
    IF HeaderRefused(Raster(pair.star), resolution)
    THEN [status |-> "raise", exc |-> "ValueError", dir |-> dir, heap |-> renormalised.heap]
    ELSE IF ~dir.exists \/ output_filename \in DOMAIN dir.templates
    THEN [status |-> "raise", exc |-> "IOError", dir |-> dir, heap |-> renormalised.heap]
    ELSE [status |-> "ok", exc |-> "", heap |-> renormalised.heap,
          dir |-> [dir EXCEPT !.templates =
                      DictSet(@, output_filename,
                              [star |-> pair.star, continuum_only |-> continuum_only,
                               data |-> renormalised.values,
                               header |-> Header(Raster(pair.star), resolution)])]]

\* make_fits_spectral_template: the raster assertion (lines 201-203), the
\* data and its renormalisation, the FITS file.
MakeFitsSpectralTemplate(dir, h, pair, output_filename, resolution, continuum_only) ==
    IF pair.cont /\ RasterHash(Raster(pair.star)) # RasterHash(pair.raster)
    THEN [status |-> "raise", exc |-> "AssertionError", dir |-> dir, heap |-> h]
    ELSE WriteTemplate(dir, pair, output_filename, resolution, continuum_only,
                       Renormalise(h, pair, TemplateData(h, pair, continuum_only)))

\* The continuum-only template, made after the template of the spectrum.
MakeContinuumTemplate(full, pair, t, resolution) ==
    IF full.status = "ok" /\ pair.cont
    THEN MakeFitsSpectralTemplate(full.dir, full.heap, pair, TemplateFile(t, TRUE),
                                  BoolVal(resolution # NoneVal), TRUE)
    ELSE full

\* Lines 291-306: the template of the spectrum, then, when it has a
\* companion, the continuum-only template.
MakeTemplates(dir, h, pair, t, resolution) ==
    MakeContinuumTemplate(
        MakeFitsSpectralTemplate(dir, h, pair, TemplateFile(t, FALSE),
                                 BoolVal(resolution # NoneVal), FALSE),
        pair, t, resolution)

\* Lines 308-333 for template t, the FITS files being written.
AppendLines(g, made, pair, defs, snrs) ==
    IF made.status = "raise"
    THEN [g EXCEPT !.status = "raise", !.exc = made.exc, !.dir = made.dir,
                   !.heap = made.heap]
    ELSE [g EXCEPT !.template_counter = @ + 1,
                   !.dir = made.dir,
                   !.heap = made.heap,
                   !.writestr = @ \o TemplateLines(g.template_counter, pair.cont, defs, snrs)]

\* Lines 285-333: one pass of the loop body.
GenerateStep(g, kept, pair, resolution, defs, snrs) ==
    AppendLines([g EXCEPT !.store = kept.store, !.heap = kept.heap],
                MakeTemplates(g.dir, kept.heap, pair, g.template_counter, resolution),
                pair, defs, snrs)

\* The loop over spectra_list, from entry k on. g carries template_counter,
\* the store, the heap, tmp_dir and writestr.
RECURSIVE GenerateLoop(_, _, _, _, _, _)
GenerateLoop(spectra_list, k, g, resolution, defs, snrs) ==
    IF k > Len(spectra_list) \/ g.status = "raise" THEN g
    ELSE GenerateLoop(spectra_list, k + 1,
             GenerateStep(g, StoreCopy(g.heap, g.store, g.template_counter,
                                       spectra_list[k].star),
                          spectra_list[k], resolution, defs, snrs),
             resolution, defs, snrs)

\* A range that always starts at template 0.
RangeListFromZero(first, last) == [k \in 1..(last + 1) |-> k - 1]

\* list(range(template_number_first, template_number_last + 1))
RangeList(first, last) == [k \in 1..(last + 1 - first) |-> first + k - 1]

\* Lines 335-344: the manifest file, written with open(..., 'w') (which
\* raises when tmp_dir is gone), and the dictionary returned.
GenerateReturn(tc, g) ==
    [status |-> IF g.dir.exists THEN g.status ELSE "raise",
     exc |-> IF g.status = "ok" /\ ~g.dir.exists THEN "IOError" ELSE g.exc,
     template_counter |-> g.template_counter,
     store |-> g.store,
     heap |-> g.heap,
     dir |-> IF g.status = "ok" /\ g.dir.exists
             THEN [g.dir EXCEPT !.template_list = g.writestr] ELSE g.dir,
     template_file |-> g.writestr,
     template_numbers |-> RangeList(tc, g.template_counter - 1)]

\* generate_4fs_template_list(spectra_list, resolution) in working directory
\* dir: the state it leaves and the dictionary it returns.
GenerateIn(dir, resolution, tc, store, h, spectra_list, defs, snrs) ==
    GenerateReturn(tc,
        GenerateLoop(spectra_list, 1,
            [status |-> "ok", exc |-> "", template_counter |-> tc, store |-> store,
             heap |-> h, dir |-> dir, writestr |-> <<>>],
            resolution, defs, snrs))

\* generate_4fs_template_list(spectra_list) on an instance whose working
\* directory holds no file of the names it writes.
Generate(tc, store, h, spectra_list, defs, snrs) ==
    GenerateIn(NewDir, DefaultResolution, tc, store, h, spectra_list, defs, snrs)

\* The manifest a fresh instance writes for spectra_list.
TemplateListOf(spectra_list) ==
    Concat([k \in 1..Len(spectra_list) |->
              TemplateLines(k - 1, spectra_list[k].cont, distinct_snr_definitions, snr_list)])

SpectraLists(tc) ==
    {l \in SeqsUpTo(Pairs, MaxBatch) : tc + Len(l) <= MaxTemplates}

\* ------------------------------------------------- the 4FS output directory
\* bands = ("blue", "green", "red")
Bands == <<"blue", "green", "red">>

\* 'specout_template_<object name>_<setup>_<band>.fits' inside outdir_<setup>.
OutputFile(name, band) == [name |-> name, band |-> band]

\* Largest run number a summary can hold: one run per manifest line.
MaxRun == MaxTemplates * (Cardinality(DefNames) * MaxSnrs + 1)

\* str(n) for the run numbers of the model.
StrOf == [n \in 0..MaxRun |-> ToString(n)]

\* The words int() accepts, with their values: decimal digits, leading
\* zeros allowed.
IntWords ==
    [w \in {StrOf[n] : n \in 0..MaxRun} \cup {"0" \o StrOf[n] : n \in 0..MaxRun} |->
        CHOOSE n \in 0..MaxRun : w = StrOf[n] \/ w = "0" \o StrOf[n]]

\* int(words[0]); any other word raises ValueError.
IntParse(w) ==
    IF w \in DOMAIN IntWords THEN [ok |-> TRUE, n |-> IntWords[w]]
    ELSE [ok |-> FALSE, n |-> 0]

\* The exposure time, in seconds, the simulator reports for run k.
ExposureOfRun(k) == 100 + k

\* The words float() accepts besides "nan", with their values.
FloatWords ==
    [w \in {ToString(n) : n \in 0..ExposureOfRun(MaxRun)} |->
        CHOOSE n \in 0..ExposureOfRun(MaxRun) : w = ToString(n)]

\* np.nan if words[5] == "nan" else float(words[5]); a word that is no
\* number raises ValueError.
FloatParse(w) ==
    IF w = "nan" THEN [ok |-> TRUE, v |-> NaN]
    ELSE IF w \in DOMAIN FloatWords THEN [ok |-> TRUE, v |-> NumVal(FloatWords[w])]
    ELSE [ok |-> FALSE, v |-> NaN]

\* The loop over the lines of 4FS_ETC_summary.txt, from line k on.
RECURSIVE SummaryLoop(_, _, _)
SummaryLoop(lines, k, exposure_times) ==
    IF k > Len(lines) THEN [status |-> "ok", exc |-> "", exposure_times |-> exposure_times]
    ELSE LET words == lines[k]
         IN  IF Len(words) < 6 THEN SummaryLoop(lines, k + 1, exposure_times)
             ELSE LET run == IntParse(words[1])
                      t_exposure == FloatParse(words[6])
                  IN  IF ~run.ok THEN SummaryLoop(lines, k + 1, exposure_times)
                      ELSE IF ~t_exposure.ok
                      THEN [status |-> "raise", exc |-> "ValueError", exposure_times |-> exposure_times]
                      ELSE SummaryLoop(lines, k + 1,
                               DictSet(exposure_times, StrOf[run.n], t_exposure.v))

\* Lines 395-413: open the summary (IOError when it is not there) and read
\* the exposure time of every run.
ExposureTimes(dir) ==
    IF ~dir.exists
    THEN [status |-> "raise", exc |-> "IOError", exposure_times |-> <<>>]
    ELSE SummaryLoop(dir.summary, 1, <<>>)

\* A lookup that is off by one run.
ExposureGetPrevious(exposure_times, run_counter) ==
    IF StrOf[run_counter - 1] \in DOMAIN exposure_times
    THEN exposure_times[StrOf[run_counter - 1]]
    ELSE NaN

\* exposure_times.get(str(run_counter), np.nan)
ExposureGet(exposure_times, run_counter) ==
    IF StrOf[run_counter] \in DOMAIN exposure_times
    THEN exposure_times[StrOf[run_counter]]
    ELSE NaN

\* ------------------------------------------------------- combine_spectra
NullRef == [k |-> "null", m |-> "", i |-> 0, j |-> 0, cn |-> 0]

\* A Spectrum object, as far as its metadata goes; None is NoSpectrum.
Spectrum(ref) == [present |-> TRUE, metadata |-> ref]
NoSpectrum == [present |-> FALSE, metadata |-> NullRef]

\* Definitions indexed by band as they are configured, without the reversal.
BandDefinitionsAsConfigured(setup, lrs, hrs) == IF setup = "LRS" THEN lrs ELSE hrs

\* snr_definitions = self.lrs_use_snr_definitions if setup == "LRS"
\*                   else self.hrs_use_snr_definitions, then [::-1]
BandDefinitions(setup, lrs, hrs) == Reverse(IF setup = "LRS" THEN lrs ELSE hrs)

\* The first band, in blue, green, red order, whose signal file is wanted
\* and is not in the directory; 0 when fits.open succeeds for every band.
MissingSignalBand(dir, i, snr, snr_definitions) ==
    LET missing == {j \in 1..3 :
                      /\ NonEmptyDef(snr_definitions[j])
                      /\ OutputFile(SignalName(i, snr, snr_definitions[j]), Bands[j])
                            \notin dir.files}
    IN  IF missing = {} THEN 0 ELSE CHOOSE j \in missing : \A x \in missing : j <= x

\* have_continuum_version = os.path.exists(continuum_filenames[0])
HaveContinuumVersion(dir, i) ==
    OutputFile(ContinuumName(i), Bands[1]) \in dir.files

\* d_c = [fits.open(item)[2].data for item in continuum_filenames]
ContinuumFilesOpen(dir, i) ==
    \A j \in 1..3 : OutputFile(ContinuumName(i), Bands[j]) \in dir.files

\* The bands whose file is read (lines 424-439): those with a non-empty
\* definition; the others get the zero-length placeholder.
FluenceBands(snr_definitions) == {j \in 1..3 : NonEmptyDef(snr_definitions[j])}

\* Lines 514-517: the shared name, or ",".join of the three; joining a
\* None raises TypeError.
SnrDefinitionEntry(snr_definitions) ==
    IF snr_definitions[1] = snr_definitions[2] /\ snr_definitions[2] = snr_definitions[3]
    THEN [ok |-> TRUE, v |-> DefVal(snr_definitions[1])]
    ELSE IF \E j \in 1..3 : snr_definitions[j] = None
    THEN [ok |-> FALSE, v |-> NoneVal]
    ELSE [ok |-> TRUE,
          v |-> StrVal(snr_definitions[1] \o "," \o snr_definitions[2] \o "," \o snr_definitions[3])]

\* Lines 508-512: the entries written into the dictionary named metadata.
AddSettings(md, snr, exposure) ==
    LET m1 == DictSet(md, "continuum_normalised", NumVal(0))
        m2 == DictSet(m1, "SNR", NumVal(snr))
        m3 == DictSet(m2, "SNR_per", StrVal("pixel"))
        m4 == DictSet(m3, "magnitude", NumVal(Magnitude))
    IN  DictSet(m4, "exposure", exposure)

\* metadata = self.metadata_store[i]: the stored dictionary itself.
StoreLookup(store, i) == store[i]

\* Spectrum(..., metadata=metadata.copy()): the new spectrum holds a new
\* dictionary, stored in the heap under ref.
CopyMetadata(h, src, ref) == [heap |-> DictSet(h, ref, h[src]), ref |-> ref]

Raise(c, exc) == [c EXCEPT !.status = "raise", !.exc = exc]

\* Lines 519-537: the two Spectrum objects of one iteration, built from the
\* dictionary named metadata, and the heap afterwards. The flag is rewritten
\* to 1 between the two copies.
BuildSpectra(h, metadata, flux_ref, normalised_ref, have_continuum_version) ==
    LET flux == CopyMetadata(h, metadata, flux_ref)
    IN  IF have_continuum_version
        THEN LET normalised ==
                    CopyMetadata([flux.heap EXCEPT ![metadata] =
                                      DictSet(@, "continuum_normalised", NumVal(1))],
                                 metadata, normalised_ref)
             IN  [heap |-> normalised.heap,
                  item |-> [spectrum |-> Spectrum(flux.ref),
                            spectrum_continuum_normalised |-> Spectrum(normalised.ref)]]
        ELSE [heap |-> flux.heap,
              item |-> [spectrum |-> Spectrum(flux.ref),
                        spectrum_continuum_normalised |-> NoSpectrum]]

\* Lines 534-537: output[i][snr] = {...}
StoreItem(c, i, snr, built) ==
    [c EXCEPT !.heap = built.heap,
              !.output = [@ EXCEPT ![i] = DictSet(@, snr, built.item)]]

\* Lines 504-537: the settings written into the dictionary named metadata,
\* the snr_definition entry (or its TypeError), the spectra.
AttachMetadata(c, i, snr, setup, snr_definitions, have_continuum_version, exposure, metadata) ==
    IF ~SnrDefinitionEntry(snr_definitions).ok
    THEN Raise([c EXCEPT !.heap[metadata] = AddSettings(@, snr, exposure)], "TypeError")
    ELSE StoreItem(c, i, snr,
             BuildSpectra([c.heap EXCEPT ![metadata] =
                              DictSet(AddSettings(@, snr, exposure), "snr_definition",
                                      SnrDefinitionEntry(snr_definitions).v)],
                          metadata,
                          OutRef(setup, i, c.run_counter, 0),
                          OutRef(setup, i, c.run_counter, 1),
                          have_continuum_version))

\* ------------------------------------ the arrays of one combine iteration
\* Lines 423-502 for one (template, SNR) pair, on the pixel data. A FITS
\* table is the sequence of its rows [LAMBDA, REALISATION, SKY, FLUENCE, SNR].
\* Wavelengths are integers, in tenths of an Angstrom; the other columns are
\* integers, and a quotient is kept as the fraction [n, d] (d > 0).
LrsCutoverLow == 53277
LrsCutoverHigh == 70317

Column(table, c) == [k \in 1..Len(table) |-> table[k][c]]

\* np.where(mask)[0]: the indices at which mask holds, ascending.
Where(mask) == SelectSeq([k \in 1..Len(mask) |-> k], LAMBDA k : mask[k])

\* item[indices]
Take(item, indices) == [p \in 1..Len(indices) |-> item[indices[p]]]

\* A cut that drops the pixel lying on the first cutover from the blue arm.
LrsIndicesExclusive(wavelengths) ==
    << Where([k \in 1..Len(wavelengths[1]) |-> wavelengths[1][k] < LrsCutoverLow]),
       Where([k \in 1..Len(wavelengths[2]) |->
                 wavelengths[2][k] > LrsCutoverLow /\ wavelengths[2][k] <= LrsCutoverHigh]),
       Where([k \in 1..Len(wavelengths[3]) |-> wavelengths[3][k] > LrsCutoverHigh]) >>

\* Lines 450-454 (and 480-484): the pixels each arm keeps in LRS mode.
LrsIndices(wavelengths) ==
    << Where([k \in 1..Len(wavelengths[1]) |-> wavelengths[1][k] <= LrsCutoverLow]),
       Where([k \in 1..Len(wavelengths[2]) |->
                 wavelengths[2][k] > LrsCutoverLow /\ wavelengths[2][k] <= LrsCutoverHigh]),
       Where([k \in 1..Len(wavelengths[3]) |-> wavelengths[3][k] > LrsCutoverHigh]) >>

\* [item[indices[j]] for j, item in enumerate(arrays)] in LRS mode; the
\* arrays as they are in HRS mode.
Truncate(arrays, indices, setup) ==
    IF setup = "LRS" THEN [j \in 1..3 |-> Take(arrays[j], indices[j])] ELSE arrays

\* Lines 424-439: the table of each band, an empty one for a band without a
\* definition; files is the content of the output directory.
SignalFile(i, snr, snr_definitions, j) ==
    OutputFile(SignalName(i, snr, snr_definitions[j]), Bands[j])

BandsRead(snr_definitions) == SelectSeq(<<1, 2, 3>>, LAMBDA j : NonEmptyDef(snr_definitions[j]))

ReadArms(files, i, snr, snr_definitions) ==
    [j \in 1..3 |-> IF NonEmptyDef(snr_definitions[j])
                    THEN files[SignalFile(i, snr, snr_definitions, j)]
                    ELSE <<>>]

\* max(fluence), for a non-empty array.
Max(a) == CHOOSE x \in Range(a) : \A y \in Range(a) : y <= x

\* fluence_c * max(fluence) / max(fluence_c), pixel by pixel.
ScaleContinuum(fluence, fluence_c) ==
    [k \in 1..Len(fluence_c) |-> [n |-> fluence_c[k] * Max(fluence), d |-> Max(fluence_c)]]

\* Lines 492-494: the arms whose signal fluence is not empty.
ContinuumArms(fluences) == SelectSeq(<<1, 2, 3>>, LAMBDA j : Len(fluences[j]) > 0)

\* a / b for numpy arrays of one dimension: pixel by pixel when the lengths
\* agree, an array of length one being repeated.
Broadcasts(n, m) == n = m \/ n = 1 \/ m = 1

Divide(fluxes, continuum) ==
    [k \in 1..(IF Len(fluxes) = 1 THEN Len(continuum) ELSE Len(fluxes)) |->
        [n |-> fluxes[IF Len(fluxes) = 1 THEN 1 ELSE k]
                 * continuum[IF Len(continuum) = 1 THEN 1 ELSE k].d,
         d |-> continuum[IF Len(continuum) = 1 THEN 1 ELSE k].n]]

Zero == [n |-> 0, d |-> 1]

\* A clean-up that also resets the pixels equal to 2.
RemoveBadPixelsFromTwo(normalised) ==
    [k \in 1..Len(normalised) |->
        IF normalised[k].n >= 2 * normalised[k].d \/ normalised[k].n <= 0
        THEN Zero ELSE normalised[k]]

\* Lines 501-502: pixels > 2.0 or <= 0.0 are set to 0.
RemoveBadPixels(normalised) ==
    [k \in 1..Len(normalised) |->
        IF normalised[k].n > 2 * normalised[k].d \/ normalised[k].n <= 0
        THEN Zero ELSE normalised[k]]

\* Lines 442-445: the columns of the three tables.
Arrays(d) ==
    [wavelengths |-> [j \in 1..3 |-> Column(d[j], "LAMBDA")],
     fluxes |-> [j \in 1..3 |-> [k \in 1..Len(d[j]) |-> d[j][k].REALISATION - d[j][k].SKY]],
     fluences |-> [j \in 1..3 |-> Column(d[j], "FLUENCE")],
     snrs |-> [j \in 1..3 |-> Column(d[j], "SNR")]]

\* Lines 447-464: the cut of each arm and the concatenated arrays.
StitchSignal(a, indices, setup) ==
    [indices |-> IF setup = "LRS" THEN indices ELSE <<>>,
     fluences |-> Truncate(a.fluences, indices, setup),
     wavelengths_final |-> Concat(Truncate(a.wavelengths, indices, setup)),
     fluxes_final |-> Concat(Truncate(a.fluxes, indices, setup)),
     snrs_final |-> Concat(Truncate(a.snrs, indices, setup))]

\* The files a pass of the loop body has opened, in the order of the calls;
\* raw is normalised_fluxes_final as the division of line 497 leaves it.
OpenedSignal(i, snr, snr_definitions, upto) ==
    [p \in 1..Len(SelectSeq(BandsRead(snr_definitions), LAMBDA j : j < upto)) |->
        SignalFile(i, snr, snr_definitions, BandsRead(snr_definitions)[p])]

OpenedContinuum(i) == [j \in 1..3 |-> OutputFile(ContinuumName(i), Bands[j])]

Failed(exc, opened) ==
    [status |-> "raise", exc |-> exc, opened |-> opened, indices |-> <<>>,
     wavelengths_final |-> <<>>, fluxes_final |-> <<>>, snrs_final |-> <<>>,
     have_continuum_version |-> FALSE, raw |-> <<>>, normalised |-> <<>>]

Stitched(signal, opened, have_continuum_version, raw) ==
    [status |-> "ok", exc |-> "", opened |-> opened, indices |-> signal.indices,
     wavelengths_final |-> signal.wavelengths_final,
     fluxes_final |-> signal.fluxes_final,
     snrs_final |-> signal.snrs_final,
     have_continuum_version |-> have_continuum_version,
     raw |-> raw, normalised |-> RemoveBadPixels(raw)]

\* Lines 492-502: the scaled continuum of the arms that have signal pixels,
\* the division and the clean-up. max() of an empty array, the concatenation
\* of no array and a division of arrays that do not broadcast raise
\* ValueError.
Normalise(signal, fluences_c, arms, opened) ==
    IF arms = <<>> \/ \E p \in 1..Len(arms) : fluences_c[arms[p]] = <<>>
    THEN Failed("ValueError", opened)
    ELSE IF ~Broadcasts(Len(signal.fluxes_final),
                        Len(Concat([p \in 1..Len(arms) |-> fluences_c[arms[p]]])))
    THEN Failed("ValueError", opened)
    ELSE Stitched(signal, opened, TRUE,
             Divide(signal.fluxes_final,
                    Concat([p \in 1..Len(arms) |->
                              ScaleContinuum(signal.fluences[arms[p]],
                                             fluences_c[arms[p]])])))

\* Lines 471-487: the continuum tables, cut with their own wavelengths.
WithContinuum(signal, d_c, setup, opened) ==
    Normalise(signal,
              Truncate([j \in 1..3 |-> Column(d_c[j], "FLUENCE")],
                       LrsIndices([j \in 1..3 |-> Column(d_c[j], "LAMBDA")]), setup),
              ContinuumArms(signal.fluences), opened)

\* Lines 466-502, the signal arrays being stitched.
AfterSignal(signal, dir, i, setup, opened) ==
    IF ~HaveContinuumVersion(dir, i) THEN Stitched(signal, opened, FALSE, <<>>)
    ELSE IF ~ContinuumFilesOpen(dir, i)
    THEN Failed("IOError",
                opened \o SubSeq(OpenedContinuum(i), 1,
                                 (CHOOSE j \in 1..3 :
                                     /\ OpenedContinuum(i)[j] \notin dir.files
                                     /\ \A x \in 1..(j - 1) : OpenedContinuum(i)[x] \in dir.files) - 1))
    ELSE WithContinuum(signal, [j \in 1..3 |-> dir.tables[OpenedContinuum(i)[j]]], setup,
                       opened \o OpenedContinuum(i))

\* Lines 423-502 for template i and one SNR: the arrays of the two spectra.
StitchIteration(dir, i, snr, setup, snr_definitions) ==
    IF Len(snr_definitions) < 3 THEN Failed("IndexError", <<>>)
    ELSE IF MissingSignalBand(dir, i, snr, snr_definitions) # 0
    THEN Failed("IOError", OpenedSignal(i, snr, snr_definitions,
                                        MissingSignalBand(dir, i, snr, snr_definitions)))
    ELSE AfterSignal(StitchSignal(Arrays(ReadArms(dir.tables, i, snr, snr_definitions)),
                                  LrsIndices(Arrays(ReadArms(dir.tables, i, snr,
                                                             snr_definitions)).wavelengths),
                                  setup),
                     dir, i, setup, OpenedSignal(i, snr, snr_definitions, 4))

\* Lines 423-505, after run_counter += 1: the arrays of the iteration, or the
\* exception that ends it (IndexError, IOError of fits.open, ValueError of
\* lines 492-497), then the lookup of the stored metadata.
IterationBody(c, i, snr, setup, snr_definitions, dir, exposure_times, store) ==
    LET arrays == StitchIteration(dir, i, snr, setup, snr_definitions)
    IN  IF arrays.status = "raise" THEN Raise(c, arrays.exc)
        ELSE IF i \notin DOMAIN store THEN Raise(c, "KeyError")
        ELSE AttachMetadata(c, i, snr, setup, snr_definitions, arrays.have_continuum_version,
                            ExposureGet(exposure_times, c.run_counter), StoreLookup(store, i))

\* run_counter += 1 (line 421), with the (template, SNR, run_counter) of the
\* iteration added to the trace.
CountRun(c, i, snr) ==
    [c EXCEPT !.run_counter = @ + 1,
              !.trace = Append(@, [i |-> i, snr |-> snr, run_counter |-> c.run_counter + 1])]

\* One pass of the body of 'for snr in self.snr_list' (lines 421-537) for
\* template i. c carries run_counter, the heap, output and the trace of
\* (template, SNR, run_counter) the loop went through.
CombineIteration(c, i, snr, setup, snr_definitions, dir, exposure_times, store) ==
    IterationBody(CountRun(c, i, snr), i, snr, setup, snr_definitions, dir,
                  exposure_times, store)

\* for snr in self.snr_list, from its k-th value on.
RECURSIVE SnrLoop(_, _, _, _, _, _, _, _, _)
SnrLoop(c, i, snrs, k, setup, snr_definitions, dir, exposure_times, store) ==
    IF k > Len(snrs) \/ c.status = "raise" THEN c
    ELSE SnrLoop(CombineIteration(c, i, snrs[k], setup, snr_definitions, dir,
                                  exposure_times, store),
                 i, snrs, k + 1, setup, snr_definitions, dir, exposure_times, store)

\* for i in template_numbers, from its k-th entry on: output[i] = {}, then
\* the loop over the SNRs.
RECURSIVE TemplateLoop(_, _, _, _, _, _, _, _, _)
TemplateLoop(c, template_numbers, k, snrs, setup, snr_definitions, dir, exposure_times, store) ==
    IF k > Len(template_numbers) \/ c.status = "raise" THEN c
    ELSE TemplateLoop(SnrLoop([c EXCEPT !.output = DictSet(@, template_numbers[k], <<>>)],
                              template_numbers[k], snrs, 1, setup, snr_definitions, dir,
                              exposure_times, store),
                      template_numbers, k + 1, snrs, setup, snr_definitions, dir,
                      exposure_times, store)

\* combine_spectra(template_numbers, path='outdir_<setup>', setup): what it
\* returns or raises, the heap it leaves, and the run counter it used at
\* each iteration.
CombineStart(h) ==
    [status |-> "ok", exc |-> "", run_counter |-> 0, heap |-> h, output |-> <<>>,
     trace |-> <<>>]

CombineWith(summary, h, store, template_numbers, dir, setup, snr_definitions, snrs) ==
    IF summary.status = "raise" THEN Raise(CombineStart(h), summary.exc)
    ELSE TemplateLoop(CombineStart(h), template_numbers, 1, snrs, setup, snr_definitions,
                      dir, summary.exposure_times, store)

CombineSpectra(h, store, template_numbers, dir, setup, lrs, hrs, snrs) ==
    CombineWith(ExposureTimes(dir), h, store, template_numbers, dir, setup,
                BandDefinitions(setup, lrs, hrs), snrs)

\* ------------------------------------------------------ the simulator, 4FS
\* What one run of the external binary leaves in outdir_<setup>. A run
\* without defect writes, for every manifest line, one file per band named
\* after the line's object, and one summary line per manifest line, numbered
\* in manifest order. A defect spoils one file or one summary line, or the
\* whole run, or the binary 4FS_ETC is not in path_to_4fs.
NoDefect == [kind |-> "none", setup |-> "", line |-> 0, band |-> ""]

NoBinary == [kind |-> "nobinary", setup |-> "", line |-> 0, band |-> ""]

\* Defects of one output file: it is missing, lacks its last row, has no row.
FileDefects == {"dropfile", "truncated", "empty"}

SummaryDefects == {"dropline", "short", "nonint", "padded", "badexp", "nanexp"}

Modes(lrs, hrs) == (IF lrs THEN {"LRS"} ELSE {}) \cup (IF hrs THEN {"HRS"} ELSE {})

\* The runs that write every file and summary line, the green table of the
\* last manifest line lacking rows.
TableDefects(lines, modes) ==
    [kind : {"truncated", "empty"}, setup : modes, line : {Len(lines)} \ {0},
     band : {"green"}]

Defects(lines, modes) ==
    {NoDefect, NoBinary}
    \cup {[kind |-> "failed", setup |-> m, line |-> 0, band |-> ""] : m \in modes}
    \cup [kind : FileDefects, setup : modes, line : 1..Len(lines), band : Range(Bands)]
    \cup [kind : SummaryDefects, setup : modes, line : 1..Len(lines), band : {""}]

SummaryLine(k, kind) ==
    LET run == IF kind = "nonint" THEN "x"
               ELSE IF kind = "padded" THEN "0" \o StrOf[k]
               ELSE StrOf[k]
        exposure == IF kind = "badexp" THEN "abc"
                    ELSE IF kind = "nanexp" THEN "nan"
                    ELSE ToString(ExposureOfRun(k))
    IN  IF kind = "short" THEN <<run, "-", "-", "-", "-">>
        ELSE <<run, "-", "-", "-", "-", exposure>>

\* The SNR a definition measures differs from definition to definition.
SnrColumn(d) == IF d = "A" THEN 10 ELSE 20

SignalTable(raster, realisation, fluence, d) ==
    [k \in 1..Len(raster) |->
        [LAMBDA |-> raster[k], REALISATION |-> realisation[k], SKY |-> 1,
         FLUENCE |-> fluence[k], SNR |-> SnrColumn(d)]]

ContinuumTable(raster, pattern) ==
    [k \in 1..Len(raster) |->
        [LAMBDA |-> raster[k], REALISATION |-> pattern[k], SKY |-> 0,
         FLUENCE |-> pattern[k], SNR |-> 250]]

BandIndex(band) == CHOOSE j \in 1..3 : Bands[j] = band

\* The tables of a run: the three arms on rasters around the LRS cutovers,
\* the continuum exposure on the raster of the signal exposure.
RunRasters == << <<53270, 53277, 53280>>, <<53277, 53280, 70317>>, <<70317, 70320>> >>

RunTable(f) ==
    IF f.name.c THEN ContinuumTable(RunRasters[BandIndex(f.band)], <<1, 2, 4>>)
    ELSE SignalTable(RunRasters[BandIndex(f.band)], <<3, 5, 9>>, <<1, 2, 4>>, f.name.def)

\* A table a defect spoiled: one that lacks its last row, or has no row.
Spoil(table, kind) ==
    IF kind = "truncated" THEN SubSeq(table, 1, Len(table) - 1)
    ELSE IF kind = "empty" THEN <<>>
    ELSE table

SimulatorRun(lines, setup, defect) ==
    LET mine == defect.setup = setup
        kindOf(k) == IF mine /\ defect.line = k THEN defect.kind ELSE "none"
        kept == {k \in 1..Len(lines) : kindOf(k) # "dropline"}
        hit == IF mine /\ defect.kind \in FileDefects
               THEN {OutputFile(lines[defect.line].name, defect.band)} ELSE {}
        files == {OutputFile(lines[k].name, b) : k \in 1..Len(lines), b \in Range(Bands)}
                   \ (IF defect.kind = "dropfile" THEN hit ELSE {})
    IN  IF mine /\ defect.kind = "failed"
        THEN [exists |-> FALSE, files |-> {}, summary |-> <<>>, tables |-> <<>>]
        ELSE [exists |-> TRUE,
              files |-> files,
              summary |-> Concat([k \in 1..Len(lines) |->
                                    IF k \in kept THEN <<SummaryLine(k, kindOf(k))>> ELSE <<>>]),
              tables |-> [f \in files |->
                            IF f \in hit THEN Spoil(RunTable(f), defect.kind)
                            ELSE RunTable(f)]]

\* os.system("rm -Rf outdir_LRS outdir_HRS")
NoDirectory == [exists |-> FALSE, files |-> {}, summary |-> <<>>, tables |-> <<>>]

\* --------------------------------------------------------- process_spectra
\* Lines 564-571: combine_spectra for LRS, then HRS, each when active. The
\* second call starts from the heap the first one left; an exception in a
\* call ends the loop.
StitchResult(first, second, lrs_on, hrs_on) ==
    [status |-> IF first.status = "raise" \/ second.status = "raise" THEN "raise" ELSE "ok",
     exc |-> IF first.status = "raise" THEN first.exc ELSE second.exc,
     heap |-> second.heap,
     output |-> IF first.status = "raise" \/ second.status = "raise" THEN <<>>
                ELSE [m \in Modes(lrs_on, hrs_on) |->
                        IF m = "LRS" THEN first.output ELSE second.output],
     trace |-> [m \in Modes(lrs_on, hrs_on /\ first.status = "ok") |->
                  IF m = "LRS" THEN first.trace ELSE second.trace]]

StitchSecond(first, store, template_numbers, dirs, lrs_on, hrs_on, lrs, hrs, snrs) ==
    StitchResult(first,
                 IF hrs_on /\ first.status = "ok"
                 THEN CombineSpectra(first.heap, store, template_numbers, dirs["HRS"], "HRS",
                                     lrs, hrs, snrs)
                 ELSE CombineStart(first.heap),
                 lrs_on, hrs_on)

StitchModes(h, store, template_numbers, dirs, lrs_on, hrs_on, lrs, hrs, snrs) ==
    StitchSecond(IF lrs_on
                 THEN CombineSpectra(h, store, template_numbers, dirs["LRS"], "LRS", lrs, hrs, snrs)
                 ELSE CombineStart(h),
                 store, template_numbers, dirs, lrs_on, hrs_on, lrs, hrs, snrs)

\* The metadata dictionaries the spectra of an output value hold.
OutputRefs(output) ==
    UNION {UNION {UNION {{output[m][i][s].spectrum.metadata,
                          output[m][i][s].spectrum_continuum_normalised.metadata}
                         : s \in DOMAIN output[m][i]}
                  : i \in DOMAIN output[m]}
           : m \in DOMAIN output} \ {NullRef}

\* Objects nothing refers to any more are gone.
Collect(h, store, output) ==
    LET live == CallerRefs \cup ArrayRefs \cup Range(store) \cup OutputRefs(output)
    IN  [r \in DOMAIN h \cap live |-> h[r]]

\* ----------------------------------------------------------------- actions
\* A call of generate_4fs_template_list.
GenerateTemplateList ==
    \E spectra_list \in SpectraLists(template_counter) :
        LET g == Generate(template_counter, metadata_store, heap, spectra_list,
                          distinct_snr_definitions, snr_list)
        IN  /\ template_counter' = g.template_counter
            /\ metadata_store' = g.store
            /\ heap' = Collect(g.heap, g.store, <<>>)
            /\ manifest' = g.template_file
            /\ ret' = [call |-> "generate", status |-> "ok", exc |-> "",
                       spectra_list |-> spectra_list,
                       template_numbers |-> g.template_numbers,
                       output |-> <<>>, trace |-> <<>>]
            /\ calls' = calls + 1
            /\ UNCHANGED <<config, outdir, cwd, process_vars, stitch_vars>>

\* Lines 551-552 and 577: cwd = os.getcwd(), os.chdir(self.tmp_dir) and, when
\* control reaches the end of the method, os.chdir(cwd). entered tells
\* whether line 552 ran.
WorkingDirectoryAfter(tmp_dir, entered, status) ==
    IF entered /\ status = "raise" THEN tmp_dir ELSE cwd

\* A call of process_spectra: the manifest, the simulator run of each active
\* mode, the stitching of each active mode.
ProcessReturn(spectra_list, g, dirs, st, entered) ==
    /\ cwd' = WorkingDirectoryAfter(TmpDir(IdString("x")), entered, st.status)
    /\ template_counter' = g.template_counter
    /\ metadata_store' = g.store
    /\ manifest' = g.template_file
    /\ outdir' = dirs
    /\ heap' = Collect(st.heap, g.store, st.output)
    /\ ret' = [call |-> "process", status |-> st.status, exc |-> st.exc,
               spectra_list |-> spectra_list,
               template_numbers |-> g.template_numbers,
               output |-> st.output, trace |-> st.trace]
    /\ calls' = calls + 1
    /\ UNCHANGED <<config, process_vars, stitch_vars>>

ProcessStitch(spectra_list, g, dirs) ==
    ProcessReturn(spectra_list, g, dirs,
                  StitchModes(g.heap, g.store, g.template_numbers, dirs,
                              run_lrs, run_hrs, lrs_use_snr_definitions,
                              hrs_use_snr_definitions, snr_list),
                  TRUE)

\* Lines 546-561: the assertion that the binary exists, which fails before
\* the process changes directory; then the runs of the enabled modes.
ProcessSimulate(spectra_list, g, defect) ==
    IF defect = NoBinary
    THEN ProcessReturn(spectra_list, g, outdir,
                       Raise(CombineStart(g.heap), "AssertionError"), FALSE)
    ELSE ProcessStitch(spectra_list, g,
                       [m \in {"LRS", "HRS"} |->
                          IF m \in Modes(run_lrs, run_hrs)
                          THEN SimulatorRun(g.template_file, m, defect)
                          ELSE NoDirectory])

ProcessRun(spectra_list, defect) ==
    ProcessSimulate(spectra_list,
                    Generate(template_counter, metadata_store, heap, spectra_list,
                             distinct_snr_definitions, snr_list),
                    defect)

\* process_spectra with a simulator that writes every file and summary line,
\* one table possibly lacking rows.
ProcessSpectra ==
    \E spectra_list \in SpectraLists(template_counter) :
        \E defect \in {NoDefect} \cup TableDefects(TemplateListOf(spectra_list),
                                                  Modes(run_lrs, run_hrs)) :
            ProcessRun(spectra_list, defect)

\* The first process_spectra of an instance, with a simulator run that has
\* one defect.
ProcessSpectraDefect ==
    /\ calls = 0
    /\ \E spectra_list \in SpectraLists(template_counter) :
         \E defect \in Defects(TemplateListOf(spectra_list), Modes(run_lrs, run_hrs)) \ {NoDefect} :
             ProcessRun(spectra_list, defect)

\* A call of combine_spectra by the caller, on the directory a simulator run
\* left, for a range of the template ids allocated so far.
CombineCall ==
    \E setup \in {"LRS", "HRS"}, first \in 0..template_counter, last \in -1..(template_counter - 1) :
        /\ first <= last + 1
        /\ LET c == CombineSpectra(heap, metadata_store, RangeList(first, last), outdir[setup],
                                   setup, lrs_use_snr_definitions, hrs_use_snr_definitions,
                                   snr_list)
               output == IF c.status = "ok" THEN [m \in {setup} |-> c.output] ELSE <<>>
           IN  /\ heap' = Collect(c.heap, metadata_store, output)
               /\ ret' = [call |-> "combine", status |-> c.status, exc |-> c.exc,
                          spectra_list |-> <<>>,
                          template_numbers |-> RangeList(first, last),
                          output |-> output, trace |-> [m \in {setup} |-> c.trace]]
               /\ calls' = calls + 1
               /\ UNCHANGED <<config, template_counter, metadata_store, manifest, outdir,
                               cwd, process_vars, stitch_vars>>

Next == calls < MaxCalls /\ (GenerateTemplateList \/ ProcessSpectra \/ CombineCall)

Spec == Init /\ [][Next]_vars

\* One pipeline invocation on a new instance, the simulator run having at
\* most one defect.
NextDefect == ProcessSpectraDefect \/ (calls = 0 /\ ProcessSpectra)

SpecDefect == Init /\ [][NextDefect]_vars

\* ------------------------------------- several instances in one process
\* The view of a process that constructs FourFS objects for the LRS mode
\* alone, calls generate_4fs_template_list, make_fits_spectral_template and
\* process_spectra on them and closes them. Every instance uses
\* snr_list = (10,).
InstanceSnrList == <<1000>>

\* lrs_use_snr_definitions arguments: three definitions, or two.
UseLists == {<<"A", "A", "A">>, <<"A", "A">>}

\* resolution arguments of generate_4fs_template_list.
Resolutions == {NoneVal, NumVal(20000), DefaultResolution}

\* Lines 123-139: the files the constructor writes into tmp_dir.
ParamFiles(lrs, hrs) ==
    (IF hrs THEN {"ETC_input_params_HRS.txt"} ELSE {})
      \cup (IF lrs THEN {"ETC_input_params_LRS.txt"} ELSE {})
      \cup {"rulelist.txt", "ruleset.txt"}

\* Lines 117-139: mkdir -p tmp_dir, then the configuration files.
ConstructDir(dir, lrs, hrs) ==
    [dir EXCEPT !.exists = TRUE, !.params = @ \cup ParamFiles(lrs, hrs)]

Operation(op, k, status, exc, spectra_list, resolution, use) ==
    [op |-> op, self |-> k, status |-> status, exc |-> exc, spectra_list |-> spectra_list,
     resolution |-> resolution, use |-> use, before |-> tmp, step |-> done.step + 1]

\* FourFS(run_lrs=True, run_hrs=False, lrs_use_snr_definitions=use,
\*        identifier=identifier), bound to handle k.
ConstructInstance ==
    /\ done.step < MaxOps
    /\ \E k \in 1..MaxInstances, identifier \in Identifiers, use \in UseLists :
          /\ instances[k].phase = "new"
          /\ IF Len(UseIfRun(use, TRUE)) # 3
             THEN /\ instances' = [instances EXCEPT ![k].phase = "failed"]
                  /\ tmp' = tmp
                  /\ done' = Operation("construct", k, "raise", "AssertionError", <<>>,
                                       NoneVal, use)
             ELSE IF cwd = Deleted
             \* Line 142: os.getcwd() raises, the directory and the
             \* configuration files being written already.
             THEN /\ instances' = [instances EXCEPT ![k].phase = "failed"]
                  /\ tmp' = [tmp EXCEPT ![IdString(identifier)] = ConstructDir(@, TRUE, FALSE)]
                  /\ done' = Operation("construct", k, "raise", "IOError", <<>>, NoneVal, use)
             ELSE /\ \E order \in Orderings(DistinctDefs(UseIfRun(use, TRUE), UseIfRun(use, FALSE))) :
                        instances' = [instances EXCEPT ![k] =
                            [phase |-> "open", id_string |-> IdString(identifier),
                             template_counter |-> 0, metadata_store |-> <<>>,
                             heap |-> CallerHeap, distinct_snr_definitions |-> order]]
                  /\ tmp' = [tmp EXCEPT ![IdString(identifier)] = ConstructDir(@, TRUE, FALSE)]
                  /\ done' = Operation("construct", k, "ok", "", <<>>, NoneVal, use)
    /\ UNCHANGED <<instance_vars, stitch_vars>>

\* The objects instance k reaches: its own, and the caller's flux arrays,
\* which are the same objects for every instance of the process.
HeapOf(k) ==
    [r \in DOMAIN instances[k].heap |->
        IF r \in ArrayRefs THEN heap[r] ELSE instances[k].heap[r]]

GenerateReturned(k, spectra_list, resolution, g) ==
    /\ instances' = [instances EXCEPT ![k].template_counter = g.template_counter,
                                      ![k].metadata_store = g.store,
                                      ![k].heap = g.heap]
    /\ heap' = [r \in DOMAIN heap |-> IF r \in ArrayRefs THEN g.heap[r] ELSE heap[r]]
    /\ tmp' = [tmp EXCEPT ![instances[k].id_string] = g.dir]
    /\ done' = Operation("generate", k, g.status, g.exc, spectra_list, resolution, <<>>)

\* generate_4fs_template_list(spectra_list, resolution) on instance k.
GenerateInInstance ==
    /\ done.step < MaxOps
    /\ \E k \in 1..MaxInstances, resolution \in Resolutions :
       \E spectra_list \in SeqsUpTo(Pairs \cup {MismatchedPair}, MaxBatch) :
          /\ instances[k].phase = "open"
          /\ instances[k].template_counter + Len(spectra_list) <= MaxTemplates
          /\ GenerateReturned(k, spectra_list, resolution,
                 GenerateIn(tmp[instances[k].id_string], resolution,
                            instances[k].template_counter, instances[k].metadata_store,
                            HeapOf(k), spectra_list,
                            instances[k].distinct_snr_definitions, InstanceSnrList))
    /\ UNCHANGED <<config, template_counter, metadata_store, manifest, outdir, ret, calls,
                    cwd, stitch_vars>>

\* output_filename arguments of a direct call of make_fits_spectral_template:
\* the name generate_4fs_template_list gives the first template, and the
\* default 'test1.fits'.
Test1File == [t |-> 0, c |-> FALSE, name |-> "test1.fits"]

OutputFilenames == {TemplateFile(0, FALSE), Test1File}

\* resolution arguments of make_fits_spectral_template and process_spectra:
\* None, or the default.
DirectResolutions == {NoneVal, DefaultResolution}

MakeReturned(k, pair, resolution, made) ==
    /\ instances' = [instances EXCEPT ![k].heap = made.heap]
    /\ heap' = [r \in DOMAIN heap |-> IF r \in ArrayRefs THEN made.heap[r] ELSE heap[r]]
    /\ tmp' = [tmp EXCEPT ![instances[k].id_string] = made.dir]
    /\ done' = Operation("make", k, made.status, made.exc, <<pair>>, resolution, <<>>)

\* make_fits_spectral_template(input_spectrum, input_spectrum_continuum_normalised,
\*     output_filename, resolution, continuum_only) called on instance k.
MakeTemplateInInstance ==
    /\ done.step < MaxOps
    /\ \E k \in 1..MaxInstances, pair \in Pairs \cup {MismatchedPair},
          output_filename \in OutputFilenames, resolution \in DirectResolutions,
          continuum_only \in BOOLEAN :
          /\ instances[k].phase = "open"
          /\ MakeReturned(k, pair, resolution,
                 MakeFitsSpectralTemplate(tmp[instances[k].id_string], HeapOf(k), pair,
                                          output_filename, resolution, continuum_only))
    /\ UNCHANGED <<config, template_counter, metadata_store, manifest, outdir, ret, calls,
                    cwd, stitch_vars>>

\* The simulator runs of the instances: complete, without the binary, or
\* leaving no output directory.
InstanceDefects ==
    {NoDefect, NoBinary, [kind |-> "failed", setup |-> "LRS", line |-> 0, band |-> ""]}

\* Lines 555-559 in tmp_dir: rm -Rf outdir_LRS outdir_HRS, then the LRS run,
\* which writes lrs_output.log and the directory out.
SimulateIn(dir, out) ==
    [dir EXCEPT !.outputs = (@ \ {"outdir_LRS", "outdir_HRS"}) \cup {"lrs_output.log"}
                              \cup (IF out.exists THEN {"outdir_LRS"} ELSE {})]

\* Line 574 in tmp_dir: rm -Rf template*.fits.
RemoveTemplates(dir) ==
    [dir EXCEPT !.templates = [f \in {x \in DOMAIN @ : "name" \in DOMAIN x} |-> @[f]]]

\* The state process_spectra leaves: st is what the combiner returned or the
\* exception that ended the call, dir the working directory at that point.
ProcessFinished(k, spectra_list, resolution, g, st, dir, entered) ==
    /\ instances' = [instances EXCEPT ![k].template_counter = g.template_counter,
                                      ![k].metadata_store = g.store,
                                      ![k].heap = Collect(st.heap, g.store, <<>>)]
    /\ heap' = [r \in DOMAIN heap |-> IF r \in ArrayRefs THEN g.heap[r] ELSE heap[r]]
    /\ tmp' = [tmp EXCEPT ![instances[k].id_string] =
                  IF st.status = "ok" THEN RemoveTemplates(dir) ELSE dir]
    /\ cwd' = WorkingDirectoryAfter(TmpDir(instances[k].id_string), entered, st.status)
    /\ done' = Operation("process", k, st.status, st.exc, spectra_list, resolution, <<>>)

\* Lines 541-580 after generate_4fs_template_list returned g: the assertion
\* on the binary, os.getcwd(), the run read from the manifest in tmp_dir, the
\* combiner.
ProcessInDir(k, spectra_list, resolution, defect, g) ==
    IF g.status = "raise"
    THEN ProcessFinished(k, spectra_list, resolution, g,
                         Raise(CombineStart(g.heap), g.exc), g.dir, FALSE)
    ELSE IF defect = NoBinary
    THEN ProcessFinished(k, spectra_list, resolution, g,
                         Raise(CombineStart(g.heap), "AssertionError"), g.dir, FALSE)
    ELSE IF cwd = Deleted
    THEN ProcessFinished(k, spectra_list, resolution, g,
                         Raise(CombineStart(g.heap), "IOError"), g.dir, FALSE)
    ELSE ProcessFinished(k, spectra_list, resolution, g,
                         CombineSpectra(g.heap, g.store, g.template_numbers,
                                        SimulatorRun(g.dir.template_list, "LRS", defect),
                                        "LRS", <<"A", "A", "A">>, <<>>, InstanceSnrList),
                         SimulateIn(g.dir, SimulatorRun(g.dir.template_list, "LRS", defect)),
                         TRUE)

\* process_spectra(spectra_list, resolution) on instance k.
ProcessInInstance ==
    /\ done.step < MaxOps
    /\ \E k \in 1..MaxInstances, resolution \in DirectResolutions, defect \in InstanceDefects :
       \E spectra_list \in SeqsUpTo(Pairs \cup {MismatchedPair}, MaxBatch) :
          /\ instances[k].phase = "open"
          /\ instances[k].template_counter + Len(spectra_list) <= MaxTemplates
          /\ ProcessInDir(k, spectra_list, resolution, defect,
                 GenerateIn(tmp[instances[k].id_string], resolution,
                            instances[k].template_counter, instances[k].metadata_store,
                            HeapOf(k), spectra_list,
                            instances[k].distinct_snr_definitions, InstanceSnrList))
    /\ UNCHANGED <<config, template_counter, metadata_store, manifest, outdir, ret, calls,
                    stitch_vars>>

\* close(): rm -Rf tmp_dir. A process whose working directory that was has
\* none any more.
CloseInstance ==
    /\ done.step < MaxOps
    /\ \E k \in 1..MaxInstances :
          /\ instances[k].phase = "open"
          /\ instances' = [instances EXCEPT ![k].phase = "closed"]
          /\ tmp' = [tmp EXCEPT ![instances[k].id_string] = NoDir]
          /\ cwd' = IF cwd = TmpDir(instances[k].id_string) THEN Deleted ELSE cwd
          /\ done' = Operation("close", k, "ok", "", <<>>, NoneVal, <<>>)
    /\ UNCHANGED <<config, template_counter, metadata_store, heap, manifest, outdir, ret,
                    calls, stitch_vars>>

\* The single-instance variables; this view uses heap, for the caller's flux
\* arrays, and cwd.
InstanceUnused ==
    /\ snr_list = InstanceSnrList
    /\ run_lrs = TRUE
    /\ run_hrs = FALSE
    /\ lrs_use_snr_definitions = <<"A", "A", "A">>
    /\ hrs_use_snr_definitions = <<>>
    /\ distinct_snr_definitions = <<"A">>
    /\ template_counter = 0
    /\ metadata_store = <<>>
    /\ heap = CallerHeap
    /\ manifest = <<>>
    /\ outdir = [m \in {"LRS", "HRS"} |-> [exists |-> FALSE, files |-> {}, summary |-> <<>>,
                                             tables |-> <<>>]]
    /\ ret = [call |-> "init", status |-> "ok", exc |-> "", spectra_list |-> <<>>,
              template_numbers |-> <<>>, output |-> <<>>, trace |-> <<>>]
    /\ calls = 0
    /\ cwd = CallerCwd

InitInstances == InstanceUnused /\ ProcessInit /\ StitchIdle

NextInstances ==
    \/ ConstructInstance
    \/ GenerateInInstance
    \/ MakeTemplateInInstance
    \/ ProcessInInstance
    \/ CloseInstance

SpecInstances == InitInstances /\ [][NextInstances]_vars

\* ------------------------------------------- one pass on simulator output
\* The output directory of a simulator run for template 0 and one SNR: for
\* every definition and band a table on the band's raster, and, when the
\* template had a companion, the three tables of the continuum exposure.
JobSnr == InstanceSnrList[1]

\* Wavelength rasters of the three arms, around the LRS cutovers.
BandRasters ==
    << {<<53270, 53277, 53280>>, <<53260, 53270>>},
       {<<53277, 53280, 70317>>, <<60000, 70320>>},
       {<<70317, 70320>>, <<70320, 70330, 70340>>} >>

\* Column values along a table, by row.
RealisationPatterns == {<<3, 5, 9>>, <<1, 0, 2>>}
FluencePatterns == {<<2, 2, 2>>, <<1, 2, 4>>}
ContinuumPatterns == {<<1, 1, 1>>, <<1, 2, 4>>, <<4, 2, 1>>}

\* The raster of the continuum exposure: the one of the signal exposure, one
\* displaced by 0.3 Angstrom, or one that lacks the last pixel.
ContinuumKinds == {"same", "shifted", "short"}

ContinuumRaster(raster, kind) ==
    IF kind = "same" THEN raster
    ELSE IF kind = "shifted" THEN [k \in 1..Len(raster) |-> raster[k] + 3]
    ELSE SubSeq(raster, 1, Len(raster) - 1)

JobFiles(kind) ==
    {OutputFile(SignalName(0, JobSnr, d), Bands[j]) : d \in DefNames, j \in 1..3}
      \cup (IF kind = "none" THEN {}
            ELSE {OutputFile(ContinuumName(0), Bands[j]) : j \in 1..3})

JobDir(rasters, realisation, fluence, kind, pattern) ==
    [exists |-> TRUE, files |-> JobFiles(kind), summary |-> <<>>,
     tables |-> [f \in JobFiles(kind) |->
                   IF f.name.c
                   THEN ContinuumTable(ContinuumRaster(rasters[BandIndex(f.band)], kind), pattern)
                   ELSE SignalTable(rasters[BandIndex(f.band)], realisation, fluence,
                                    f.name.def)]]

JobDirs ==
    {JobDir(<<b, g, r>>, realisation, fluence, "none", <<1, 1, 1>>) :
        b \in BandRasters[1], g \in BandRasters[2], r \in BandRasters[3],
        realisation \in RealisationPatterns, fluence \in FluencePatterns}
    \cup
    {JobDir(<<b, g, r>>, realisation, fluence, c.kind, c.pattern) :
        b \in BandRasters[1], g \in BandRasters[2], r \in BandRasters[3],
        realisation \in RealisationPatterns, fluence \in FluencePatterns,
        c \in [kind : ContinuumKinds, pattern : ContinuumPatterns]}

\* (red, green, blue) definitions of the mode.
JobTriples ==
    {<<"A", "A", "A">>, <<"A", "A", "B">>, <<"B", "A", "A">>, <<"", "A", "B">>,
     <<None, "A", "B">>, <<"A", "", "">>, <<"", "", "">>}

Jobs == [setup : {"LRS", "HRS"}, use : JobTriples, dir : JobDirs]

\* The body of the loop of combine_spectra, up to line 502, for template 0.
StitchArms ==
    /\ stitched.status = "pending"
    /\ job # NoJob
    /\ stitched' = StitchIteration(job.dir, 0, JobSnr, job.setup,
                                   BandDefinitions(job.setup, job.use, job.use))
    /\ UNCHANGED <<job, instance_vars, process_vars>>

InitStitch == InstanceUnused /\ ProcessInit /\ job \in Jobs /\ stitched = NotStitched

NextStitch == StitchArms

SpecStitch == InitStitch /\ [][NextStitch]_vars

\* ================================================================== claims
\* The value a returned spectrum's metadata holds under key.
MetadataOf(spectrum, key) == heap[spectrum.metadata][key]

\* The last call was process_spectra and it returned its output.
ProcessReturned == ret.call = "process" /\ ret.status = "ok"

\* The (red, green, blue) definitions of a mode.
UseOf(m) == IF m = "LRS" THEN lrs_use_snr_definitions ELSE hrs_use_snr_definitions

ActiveModes == Modes(run_lrs, run_hrs)

\* Every band of mode m has a non-empty SNR definition.
AllBandsDefined(m) == Len(UseOf(m)) = 3 /\ \A j \in 1..3 : NonEmptyDef(UseOf(m)[j])

\* Every band of every active mode has one.
EveryBandDefined == \A m \in ActiveModes : AllBandsDefined(m)

\* The ordinal, counted from 1, of the iteration of combine_spectra for the
\* a-th template id and the b-th SNR.
Ordinal(a, b) == (a - 1) * Len(snr_list) + b

\* C1: the run counter combine_spectra uses at iteration (template, SNR) is
\* the 1-based ordinal, in the manifest generate_4fs_template_list wrote, of
\* an exposure-request line for that template id and that SNR.
\* (Stated for the modes all of whose bands have a definition.)
C1_RunCounterIsManifestOrdinal ==
    ret.call = "process" =>
        \A m \in DOMAIN ret.trace : \A k \in DOMAIN ret.trace[m] :
            LET e == ret.trace[m][k]
            IN  AllBandsDefined(m) =>
                /\ e.run_counter \in DOMAIN manifest
                /\ ~manifest[e.run_counter].name.c
                /\ manifest[e.run_counter].name.t = e.i
                /\ manifest[e.run_counter].name.snr = Fmt1(e.snr)

\* The lines of a summary that give run number k an exposure time: six
\* words or more, the first one an integer equal to k.
LinesOfRun(summary, k) ==
    {n \in DOMAIN summary :
        /\ Len(summary[n]) >= 6
        /\ summary[n][1] \in DOMAIN IntWords
        /\ IntWords[summary[n][1]] = k}

\* The b-th SNR is the last one of snr_list with its value: the entry
\* output[i][snr] is the one the b-th iteration stored.
LastOfItsValue(b) == \A b2 \in DOMAIN snr_list : b2 > b => snr_list[b2] # snr_list[b]

\* C2: the k-th (template id, SNR) iteration of combine_spectra gets metadata
\* 'exposure' equal to the exposure time of the summary line whose run number
\* is k, and NaN when the summary has no such line.
C2_ExposureOfKthIteration ==
    ProcessReturned =>
        \A m \in DOMAIN ret.output :
        \A a \in DOMAIN ret.template_numbers : \A b \in DOMAIN snr_list :
            LastOfItsValue(b) =>
                LET item == ret.output[m][ret.template_numbers[a]][snr_list[b]]
                    got == MetadataOf(item.spectrum, "exposure")
                    lines == LinesOfRun(outdir[m].summary, Ordinal(a, b))
                IN  /\ lines = {} => got = NaN
                    /\ \A n \in lines :
                          got = (IF outdir[m].summary[n][6] = "nan" THEN NaN
                                 ELSE NumVal(FloatWords[outdir[m].summary[n][6]]))
                    /\ item.spectrum_continuum_normalised.present =>
                          MetadataOf(item.spectrum_continuum_normalised, "exposure") = got

\* C2 witness: a returned output in which one iteration took the exposure
\* time of its summary line and another, whose line is missing, took NaN.
C2_Witness ==
    /\ ProcessReturned
    /\ \E m \in DOMAIN ret.output :
       \E a1, a2 \in DOMAIN ret.template_numbers : \E b1, b2 \in DOMAIN snr_list :
          /\ Ordinal(a1, b1) > 1
          /\ LinesOfRun(outdir[m].summary, Ordinal(a1, b1)) # {}
          /\ MetadataOf(ret.output[m][ret.template_numbers[a1]][snr_list[b1]].spectrum,
                        "exposure") = NumVal(ExposureOfRun(Ordinal(a1, b1)))
          /\ LinesOfRun(outdir[m].summary, Ordinal(a2, b2)) = {}
          /\ MetadataOf(ret.output[m][ret.template_numbers[a2]][snr_list[b2]].spectrum,
                        "exposure") = NaN

\* The entry of the returned output for mode m, the a-th template of the
\* call and the b-th SNR is there.
HasEntry(m, a, b) ==
    /\ ret.status = "ok"
    /\ m \in DOMAIN ret.output
    /\ ret.template_numbers[a] \in DOMAIN ret.output[m]
    /\ snr_list[b] \in DOMAIN ret.output[m][ret.template_numbers[a]]

Entry(m, a, b) == ret.output[m][ret.template_numbers[a]][snr_list[b]]

\* C3: when all expected simulator outputs exist, combine_spectra returns
\* exactly one entry for every (template id, SNR) pair and no other; each
\* holds a flux-calibrated spectrum with metadata SNR equal to the pair's SNR
\* and continuum_normalised = 0 and, when the template had a continuum
\* companion, a continuum-normalised spectrum with that SNR and
\* continuum_normalised = 1. (The simulator of Spec writes every output.)
C3_OneEntryPerPair ==
    ret.call = "process" =>
        /\ ret.status = "ok"
        /\ DOMAIN ret.output = ActiveModes
        /\ \A m \in DOMAIN ret.output :
             /\ DOMAIN ret.output[m] = Range(ret.template_numbers)
             /\ \A a \in DOMAIN ret.template_numbers :
                  /\ DOMAIN ret.output[m][ret.template_numbers[a]] = Range(snr_list)
                  /\ \A b \in DOMAIN snr_list :
                       LET item == Entry(m, a, b)
                       IN  /\ item.spectrum.present
                           /\ MetadataOf(item.spectrum, "SNR") = NumVal(snr_list[b])
                           /\ MetadataOf(item.spectrum, "continuum_normalised") = NumVal(0)
                           /\ ret.spectra_list[a].cont =>
                                /\ item.spectrum_continuum_normalised.present
                                /\ MetadataOf(item.spectrum_continuum_normalised, "SNR")
                                      = NumVal(snr_list[b])
                                /\ MetadataOf(item.spectrum_continuum_normalised,
                                              "continuum_normalised") = NumVal(1)

\* Some band's continuum-only output of template t is not in outdir_<m>.
ContinuumMissing(m, t) ==
    /\ outdir[m].exists
    /\ \E j \in 1..3 : OutputFile(ContinuumName(t), Bands[j]) \notin outdir[m].files

\* C4: a missing continuum-only output is never fatal: whichever of the
\* per-band continuum-only files of a template are missing, combine_spectra
\* raises nothing, returns the flux-calibrated spectrum for every SNR of the
\* template and a null continuum-normalised spectrum. (Stated for the
\* configurations in which every band of every active mode has a definition.)
C4_MissingContinuumNotFatal ==
    ret.call = "process" =>
        \A m \in ActiveModes : \A a \in DOMAIN ret.spectra_list :
            (/\ EveryBandDefined
             /\ ret.spectra_list[a].cont
             /\ ContinuumMissing(m, ret.template_numbers[a]))
            => \A b \in DOMAIN snr_list :
                  /\ HasEntry(m, a, b)
                  /\ Entry(m, a, b).spectrum.present
                  /\ ~Entry(m, a, b).spectrum_continuum_normalised.present

\* Some required band's output of the unit (t, snr) is not in outdir_<m>.
SignalMissing(m, t, snr) ==
    /\ outdir[m].exists
    /\ \E j \in 1..3 :
          /\ NonEmptyDef(Reverse(UseOf(m))[j])
          /\ OutputFile([t |-> t, c |-> FALSE, snr |-> Fmt1(snr), def |-> Reverse(UseOf(m))[j]],
                        Bands[j]) \notin outdir[m].files

\* C5: a missing per-band output of a required band is fatal only for its
\* own (template, SNR) unit: combine_spectra still returns the output of
\* every other unit whose files exist. (Stated for the configurations in
\* which every band of every active mode has a definition.)
C5_OtherUnitsStillReturned ==
    ret.call = "process" =>
        \A m \in ActiveModes :
            (/\ EveryBandDefined
             /\ \E a \in DOMAIN ret.template_numbers : \E b \in DOMAIN snr_list :
                   SignalMissing(m, ret.template_numbers[a], snr_list[b]))
            => \A a \in DOMAIN ret.template_numbers : \A b \in DOMAIN snr_list :
                  ~SignalMissing(m, ret.template_numbers[a], snr_list[b])
                  => HasEntry(m, a, b) /\ Entry(m, a, b).spectrum.present

\* A summary line that cannot be parsed into an integer run number and a
\* numeric exposure time.
Malformed(words) ==
    \/ Len(words) < 6
    \/ words[1] \notin DOMAIN IntWords
    \/ words[6] # "nan" /\ words[6] \notin DOMAIN FloatWords

\* C6: no malformed line of the run summary makes combine_spectra fail: the
\* line is skipped, the exposure times of the other runs are those of their
\* lines, and a run left without a line gets NaN. (Stated for the configurations in which
\* every band of every active mode has a definition.)
C6_MalformedLineSkipped ==
    ret.call = "process" =>
        \A m \in ActiveModes :
            (/\ EveryBandDefined
             /\ \E n \in DOMAIN outdir[m].summary : Malformed(outdir[m].summary[n]))
            => \A a \in DOMAIN ret.template_numbers : \A b \in DOMAIN snr_list :
                  LastOfItsValue(b) =>
                     /\ HasEntry(m, a, b)
                     /\ LET lines == {n \in LinesOfRun(outdir[m].summary, Ordinal(a, b)) :
                                         ~Malformed(outdir[m].summary[n])}
                            got == MetadataOf(Entry(m, a, b).spectrum, "exposure")
                        IN  /\ lines = {} => got = NaN
                            /\ \A n \in lines :
                                  got = (IF outdir[m].summary[n][6] = "nan" THEN NaN
                                         ELSE NumVal(FloatWords[outdir[m].summary[n][6]]))

\* The keys combine_spectra adds to the metadata of its output.
AddedKeys == {"continuum_normalised", "SNR", "SNR_per", "magnitude", "exposure",
              "snr_definition"}

\* C7: after any number of combine_spectra calls the record stored for each
\* template id is still the metadata captured when the template was
\* recorded (the metadata of one of the caller's spectra): the combiner's
\* keys never appear in the store.
C7_StoreKeepsCapturedMetadata ==
    \A t \in DOMAIN metadata_store :
        \E s \in Stars : heap[metadata_store[t]] = CallerMetadata(s)

\* The spectra of the returned output, as (mode, template, SNR, kind).
OutputSpectra ==
    {x \in [m : DOMAIN ret.output, i : Range(ret.template_numbers), s : Range(snr_list),
            cn : BOOLEAN] :
        /\ x.i \in DOMAIN ret.output[x.m]
        /\ x.s \in DOMAIN ret.output[x.m][x.i]
        /\ x.cn => ret.output[x.m][x.i][x.s].spectrum_continuum_normalised.present}

MetadataRefOf(x) ==
    IF x.cn THEN ret.output[x.m][x.i][x.s].spectrum_continuum_normalised.metadata
    ELSE ret.output[x.m][x.i][x.s].spectrum.metadata

\* C8: the metadata mapping of a caller's spectrum is never changed, and no
\* output spectrum shares its metadata mapping with a caller's spectrum,
\* with the store or with another output spectrum.
C8_CallerMetadataUntouched ==
    /\ \A s \in Stars : heap[CallerRef(s)] = CallerMetadata(s)
    /\ \A x \in OutputSpectra :
          /\ MetadataRefOf(x) \notin CallerRefs
          /\ MetadataRefOf(x) \notin Range(metadata_store)
          /\ \A y \in OutputSpectra : x # y => MetadataRefOf(x) # MetadataRefOf(y)

\* C8 witness: process_spectra returned flux-calibrated and continuum-
\* normalised spectra of a caller's spectrum that already had an 'SNR'
\* entry, after an earlier call on the same instance.
C8_Witness ==
    /\ ProcessReturned
    /\ calls >= 2
    /\ \E x, y \in OutputSpectra :
          /\ x.cn /\ ~y.cn /\ x.i = y.i /\ x.s = y.s /\ x.m = y.m
          /\ heap[MetadataRefOf(x)]["Starname"] = StrVal("s2")
          /\ heap[MetadataRefOf(x)]["SNR"] # heap[CallerRef(2)]["SNR"]

\* C9: when process_spectra returns, the store holds no record of the
\* templates of that invocation.
C9_StoreClearedOnReturn ==
    ProcessReturned => \A k \in DOMAIN ret.template_numbers :
                           ret.template_numbers[k] \notin DOMAIN metadata_store

\* The manifest lines with this object name and this source file.
LinesNamed(name, file) ==
    {n \in DOMAIN manifest : manifest[n].name = name /\ manifest[n].file = file}

\* C10: for every template of the input list the manifest holds exactly one
\* line per (position in snr_list, distinct non-empty SNR definition), named
\* template_<id>_SNR<snr>_<definition> and pointing at the template's flux
\* file, plus one line template_<id>_c exactly when the template has a
\* continuum companion, and no other line.
C10_ManifestLines ==
    ret.call \in {"generate", "process"} =>
        LET defs == DistinctDefs(lrs_use_snr_definitions, hrs_use_snr_definitions)
        IN  /\ \A a \in DOMAIN ret.spectra_list :
                 LET t == ret.template_numbers[a]
                 IN  /\ \A d \in defs : \A b \in DOMAIN snr_list :
                            Cardinality(LinesNamed([t |-> t, c |-> FALSE,
                                                    snr |-> Fmt1(snr_list[b]), def |-> d],
                                                   [t |-> t, c |-> FALSE]))
                              = Cardinality({b2 \in DOMAIN snr_list :
                                               Fmt1(snr_list[b2]) = Fmt1(snr_list[b])})
                     /\ Cardinality(LinesNamed([t |-> t, c |-> TRUE, snr |-> 0, def |-> ""],
                                               [t |-> t, c |-> TRUE]))
                          = (IF ret.spectra_list[a].cont THEN 1 ELSE 0)
            /\ \A n \in DOMAIN manifest :
                 \E a \in DOMAIN ret.spectra_list :
                    /\ manifest[n].name.t = ret.template_numbers[a]
                    /\ manifest[n].file.t = ret.template_numbers[a]
                    /\ manifest[n].file.c = manifest[n].name.c
                    /\ manifest[n].name.c => ret.spectra_list[a].cont
                    /\ ~manifest[n].name.c =>
                          /\ manifest[n].name.def \in defs
                          /\ \E b \in DOMAIN snr_list : manifest[n].name.snr = Fmt1(snr_list[b])

\* C10 witness: a manifest for two templates, one of them with a continuum
\* companion, two SNRs and two distinct definitions.
C10_Witness ==
    /\ ret.call = "generate"
    /\ Len(ret.spectra_list) = 2
    /\ ret.spectra_list[1].cont /\ ~ret.spectra_list[2].cont
    /\ Len(distinct_snr_definitions) = 2
    /\ Len(snr_list) = 2 /\ snr_list[1] # snr_list[2]
    /\ Len(manifest) = 9


\* The value template_counter had when the last call started.
CounterOnEntry == template_counter - Len(ret.spectra_list)

\* What generate_4fs_template_list returns for the arguments of the last call
\* when the set distinct_snr_definitions iterates in the order defs.
RunWithOrder(defs) ==
    Generate(CounterOnEntry, metadata_store, heap, ret.spectra_list, defs, snr_list)

\* C11: generate_4fs_template_list is deterministic: from equal instance
\* state, with the same input list and the same configuration, every run
\* writes the same manifest lines in the same order and returns the same
\* template ids. (Two instances built from one configuration hold equal sets
\* distinct_snr_definitions; the order a set of str iterates in is not part
\* of its value.)
C11_ManifestDeterministic ==
    ret.call = "generate" =>
        \A defs \in Orderings(DistinctDefs(lrs_use_snr_definitions, hrs_use_snr_definitions)) :
            /\ RunWithOrder(defs).template_file = manifest
            /\ RunWithOrder(defs).template_numbers = ret.template_numbers

\* C12: a call of generate_4fs_template_list returns consecutive integers
\* starting at the counter value on entry, one per input pair in input order
\* (an empty list for empty input); none of them was allocated before, so no
\* id is returned by two calls; and each is a key of the store, under which
\* the metadata of the pair's spectrum is recorded.
C12_ReturnsAllocatedIds ==
    [][(calls' = calls + 1 /\ ret'.call = "generate") =>
          /\ Len(ret'.template_numbers) = Len(ret'.spectra_list)
          /\ \A k \in DOMAIN ret'.template_numbers :
                /\ ret'.template_numbers[k] = template_counter + k - 1
                /\ ret'.template_numbers[k] \notin DOMAIN metadata_store
                /\ ret'.template_numbers[k] \in DOMAIN metadata_store'
                /\ heap'[metadata_store'[ret'.template_numbers[k]]]
                      = heap[CallerRef(ret'.spectra_list[k].star)]
          /\ \A t \in DOMAIN metadata_store :
                t \in DOMAIN metadata_store' /\ t < template_counter
          /\ template_counter' = template_counter + Len(ret'.spectra_list)]_vars

\* C12 witness: the second call on an instance returned the one id it
\* allocated, 1, the first call having allocated id 0.
C12_Witness ==
    /\ calls = 2
    /\ ret.call = "generate"
    /\ ret.template_numbers = <<1>>
    /\ DOMAIN metadata_store = {0, 1}


\* The working directory of the instance the last operation was made on, as
\* it is now and as it was when the operation started.
DirNow == tmp[instances[done.self].id_string]
DirBefore == done.before[instances[done.self].id_string]

\* The template files the last operation wrote.
Written == DOMAIN DirNow.templates \ DOMAIN DirBefore.templates

\* C13: a precondition violation fails before any file I/O: a call of
\* generate_4fs_template_list whose input list holds a pair with mismatching
\* raster hashes fails and has written no template file and no manifest; a
\* constructor given a definition list whose length is not three fails and
\* has not created the working directory.
C13_FailsBeforeAnyIO ==
    /\ (done.op = "generate" /\ \E k \in DOMAIN done.spectra_list :
                                    done.spectra_list[k] = MismatchedPair)
          => (done.status = "raise" /\ tmp = done.before)
    /\ (done.op = "construct" /\ Len(done.use) # 3)
          => (done.status = "raise" /\ tmp = done.before)

\* C14: no two instances that are alive at the same time share a working
\* directory, and the working directory of an instance that is alive exists.
C14_NoSharedWorkingDirectory ==
    /\ \A a, b \in 1..MaxInstances :
          (a # b /\ instances[a].phase = "open" /\ instances[b].phase = "open")
             => instances[a].id_string # instances[b].id_string
    /\ \A a \in 1..MaxInstances :
          instances[a].phase = "open" => tmp[instances[a].id_string].exists

\* np.mean(wavelength_raster / R) for a resolving power R, as a fraction.
FwhmOf(wavelength_raster, R) ==
    [n |-> Sum(wavelength_raster), d |-> Len(wavelength_raster) * R]

\* Two fractions with non-zero denominators are the same number.
SameFraction(a, b) == a.d # 0 /\ b.d # 0 /\ a.n * b.d = b.n * a.d

\* C20: every template file a call of generate_4fs_template_list writes
\* records, when a resolution R is given, the FWHM mean(wavelength / R), and
\* records no FWHM when resolution is None; the call does not fail on the
\* header card.
C20_FwhmFromResolvingPower ==
    done.op = "generate" =>
        /\ done.exc # "ValueError"
        /\ \A f \in Written :
            IF done.resolution = NoneVal
            THEN "RESOLUTN" \notin DOMAIN DirNow.templates[f].header
            ELSE /\ "RESOLUTN" \in DOMAIN DirNow.templates[f].header
                 /\ SameFraction(DirNow.templates[f].header["RESOLUTN"],
                                 FwhmOf(Raster(DirNow.templates[f].star), done.resolution.n))

\* With resolution=None no template file is written through
\* generate_4fs_template_list: the first header is refused.
C20_NoneWritesNothing ==
    (done.op = "generate" /\ done.resolution = NoneVal) => Written = {}

\* A direct call of make_fits_spectral_template records mean(wavelength / R),
\* and no card when resolution is None.
C20_DirectCallRecordsFwhm ==
    (done.op = "make" /\ done.status = "ok") =>
        \A f \in Written :
            DirNow.templates[f].header
              = (IF done.resolution = NoneVal THEN <<>>
                 ELSE [x \in {"RESOLUTN"} |->
                         FwhmOf(Raster(DirNow.templates[f].star), done.resolution.n)])


\* Mode m has a band without an SNR definition, and a band with one.
SomeBandEmpty(m) == \E j \in 1..3 : ~NonEmptyDef(UseOf(m)[j])
SomeBandDefined(m) == \E j \in 1..3 : NonEmptyDef(UseOf(m)[j])

\* C19: when one or more bands of a mode have an empty SNR definition (None
\* or ""), the output for every (template, SNR) pair is still produced from
\* the remaining bands, without error: a flux-calibrated spectrum and, when
\* the template had a continuum companion, a continuum-normalised one.
\* (Stated for the configurations in which every active mode keeps a band
\* with a definition, the simulator writing every output.)
C19_EmptyBandsStillProduceOutput ==
    (/\ ret.call = "process"
     /\ \A m \in ActiveModes : SomeBandDefined(m)
     /\ \E m \in ActiveModes : SomeBandEmpty(m))
    => /\ ret.status = "ok"
       /\ \A m \in ActiveModes :
          \A a \in DOMAIN ret.template_numbers : \A b \in DOMAIN snr_list :
             /\ HasEntry(m, a, b)
             /\ Entry(m, a, b).spectrum.present
             /\ ret.spectra_list[a].cont
                   => Entry(m, a, b).spectrum_continuum_normalised.present


\* The (blue, green, red) definitions of the pass, and the table it reads
\* for arm j (none for an arm without a definition).
JobDefinitions == Reverse(job.use)

Arm(j) ==
    IF NonEmptyDef(JobDefinitions[j])
    THEN job.dir.tables[OutputFile(SignalName(0, JobSnr, JobDefinitions[j]), Bands[j])]
    ELSE <<>>

\* The wavelength window of arm j in LRS mode.
InWindow(j, w) ==
    IF j = 1 THEN w <= LrsCutoverLow
    ELSE IF j = 2 THEN w > LrsCutoverLow /\ w <= LrsCutoverHigh
    ELSE w > LrsCutoverHigh

\* The rows of arm j inside its window, in the arm's order.
KeptRows(j) == SelectSeq(Arm(j), LAMBDA row : InWindow(j, row.LAMBDA))

\* The arm an output position belongs to, counting the kept rows.
ArmOfPosition(p) ==
    IF p <= Len(KeptRows(1)) THEN 1
    ELSE IF p <= Len(KeptRows(1)) + Len(KeptRows(2)) THEN 2 ELSE 3

\* C15: in LRS mode the stitched spectrum is exactly the blue-arm pixels with
\* wavelength <= 5327.7, then the green-arm pixels in (5327.7, 7031.7], then
\* the red-arm pixels above 7031.7, each in its arm's order; every output
\* pixel lies in the window of the arm it comes from, wavelengths increase
\* across arm boundaries, and flux and SNR are cut with the same indices.
C15_LrsStitchWindows ==
    (stitched.status = "ok" /\ job.setup = "LRS") =>
        /\ stitched.wavelengths_final =
              Concat([j \in 1..3 |-> [k \in 1..Len(KeptRows(j)) |-> KeptRows(j)[k].LAMBDA]])
        /\ stitched.fluxes_final =
              Concat([j \in 1..3 |-> [k \in 1..Len(KeptRows(j)) |->
                                         KeptRows(j)[k].REALISATION - KeptRows(j)[k].SKY]])
        /\ stitched.snrs_final =
              Concat([j \in 1..3 |-> [k \in 1..Len(KeptRows(j)) |-> KeptRows(j)[k].SNR]])
        /\ \A p \in DOMAIN stitched.wavelengths_final :
              InWindow(ArmOfPosition(p), stitched.wavelengths_final[p])
        /\ \A p, q \in DOMAIN stitched.wavelengths_final :
              ArmOfPosition(p) < ArmOfPosition(q)
                 => stitched.wavelengths_final[p] < stitched.wavelengths_final[q]

\* C15 witness: an LRS pass with all three arms read, whose blue arm has a
\* pixel on the first cutover (kept) and one above it (dropped), and whose
\* green arm has a pixel on the first cutover (dropped) and one on the
\* second (kept).
C15_Witness ==
    /\ stitched.status = "ok" /\ job.setup = "LRS"
    /\ \A j \in 1..3 : NonEmptyDef(JobDefinitions[j])
    /\ \E k \in DOMAIN Arm(1) : Arm(1)[k].LAMBDA = LrsCutoverLow
    /\ \E k \in DOMAIN Arm(1) : Arm(1)[k].LAMBDA > LrsCutoverLow
    /\ \E k \in DOMAIN Arm(2) : Arm(2)[k].LAMBDA = LrsCutoverLow
    /\ \E k \in DOMAIN Arm(2) : Arm(2)[k].LAMBDA = LrsCutoverHigh
    /\ \E p \in DOMAIN stitched.wavelengths_final :
          stitched.wavelengths_final[p] = LrsCutoverLow
    /\ Len(stitched.wavelengths_final) < Len(Arm(1)) + Len(Arm(2)) + Len(Arm(3))

\* A raw ratio that the clean-up resets: above 2.0, or at most 0.0.
BadPixel(r) == r.n > 2 * r.d \/ r.n <= 0

\* C16: in a continuum-normalised spectrum every pixel whose raw ratio
\* stitched flux / stitched continuum is > 2.0 or <= 0.0 has value exactly 0,
\* and every other pixel keeps its raw ratio.
C16_BadPixelsReset ==
    (stitched.status = "ok" /\ stitched.have_continuum_version) =>
        /\ Len(stitched.normalised) = Len(stitched.raw)
        /\ \A k \in DOMAIN stitched.raw :
              stitched.normalised[k] = IF BadPixel(stitched.raw[k]) THEN Zero
                                       ELSE stitched.raw[k]

\* C16 witness: a normalised spectrum with a raw ratio above 2, one equal to
\* 2 (kept) and one strictly between 0 and 2.
C16_Witness ==
    /\ stitched.status = "ok" /\ stitched.have_continuum_version
    /\ \E k \in DOMAIN stitched.raw : stitched.raw[k].n > 2 * stitched.raw[k].d
    /\ \E k \in DOMAIN stitched.raw :
          /\ stitched.raw[k].n = 2 * stitched.raw[k].d
          /\ stitched.normalised[k] = stitched.raw[k]
    /\ \E k \in DOMAIN stitched.raw :
          stitched.raw[k].n > 0 /\ stitched.raw[k].n < 2 * stitched.raw[k].d

\* The table of the continuum exposure for arm j.
ContinuumArm(j) == job.dir.tables[OutputFile(ContinuumName(0), Bands[j])]

\* C17: the stitched flux is divided by the stitched continuum only when the
\* signal output and the continuum output have identical wavelength rasters
\* in every band that is read; otherwise the pass fails.
C17_DividesOnMatchingRasters ==
    (stitched.status = "ok" /\ stitched.have_continuum_version) =>
        \A j \in 1..3 :
            NonEmptyDef(JobDefinitions[j])
               => Column(Arm(j), "LAMBDA") = Column(ContinuumArm(j), "LAMBDA")

\* The signal file of a band for a definition.
FileOf(d, j) == OutputFile(SignalName(0, JobSnr, d), Bands[j])

\* The configured definitions by band: blue gets the third, red the first.
ConfiguredFor(j) == IF j = 1 THEN job.use[3] ELSE IF j = 2 THEN job.use[2] ELSE job.use[1]

\* C18: for a configured triple (r, g, b) the pass reads the blue arm's file
\* with definition b, the green arm's with g and the red arm's with r (no
\* file for an arm without a definition), and in HRS mode, where nothing is
\* cut, the output is the blue table, then the green, then the red.
C18_BandsReadInReverseOrder ==
    stitched.status = "ok" =>
        /\ SelectSeq(stitched.opened, LAMBDA f : ~f.name.c) =
              [p \in 1..Len(SelectSeq(<<1, 2, 3>>, LAMBDA j : NonEmptyDef(ConfiguredFor(j)))) |->
                  FileOf(ConfiguredFor(SelectSeq(<<1, 2, 3>>,
                                                 LAMBDA j : NonEmptyDef(ConfiguredFor(j)))[p]),
                         SelectSeq(<<1, 2, 3>>, LAMBDA j : NonEmptyDef(ConfiguredFor(j)))[p])]
        /\ job.setup = "HRS" =>
              /\ stitched.snrs_final =
                    Concat([j \in 1..3 |->
                              IF NonEmptyDef(ConfiguredFor(j))
                              THEN Column(job.dir.tables[FileOf(ConfiguredFor(j), j)], "SNR")
                              ELSE <<>>])
              /\ stitched.wavelengths_final =
                    Concat([j \in 1..3 |->
                              IF NonEmptyDef(ConfiguredFor(j))
                              THEN Column(job.dir.tables[FileOf(ConfiguredFor(j), j)], "LAMBDA")
                              ELSE <<>>])

\* C18 witness: an HRS pass configured (red, green, blue) = ("A", "A", "B"):
\* the output starts with the pixels of the blue file of definition "B" and
\* ends with those of the red file of definition "A".
C18_Witness ==
    /\ stitched.status = "ok" /\ job.setup = "HRS"
    /\ job.use = <<"A", "A", "B">>
    /\ stitched.opened[1] = FileOf("B", 1)
    /\ stitched.snrs_final[1] = SnrColumn("B")
    /\ stitched.snrs_final[Len(stitched.snrs_final)] = SnrColumn("A")

\* The object names combine_spectra puts into the names of the files it
\* opens for template t in mode m (lines 425-429): one per SNR of snr_list
\* and per band with a non-empty definition.
ExpectedSignalNames(m, t) ==
    {SignalFile(t, snr_list[b],
                BandDefinitions(m, lrs_use_snr_definitions, hrs_use_snr_definitions), j).name :
        b \in DOMAIN snr_list,
        j \in FluenceBands(BandDefinitions(m, lrs_use_snr_definitions,
                                           hrs_use_snr_definitions))}

\* C23: after generate_4fs_template_list, for every enabled mode, every
\* template id returned, every SNR and every band with a non-empty definition,
\* the object name the combiner expects is the name of a manifest line that
\* points at that template's flux file; and the object name of the continuum
\* file the combiner probes is the name of a manifest line exactly when the
\* template has a continuum companion.
C23_ManifestAndCombinerAgree ==
    ret.call \in {"generate", "process"} =>
        \A a \in DOMAIN ret.template_numbers :
            LET t == ret.template_numbers[a]
            IN  /\ \A m \in Modes(run_lrs, run_hrs) :
                   \A name \in ExpectedSignalNames(m, t) :
                       LinesNamed(name, TemplateFile(t, FALSE)) # {}
                /\ (LinesNamed(ContinuumName(t), TemplateFile(t, TRUE)) # {})
                      <=> ret.spectra_list[a].cont

\* C23 witness: both modes enabled with different definitions, a template
\* with a continuum companion and one without, names expected in each mode.
C23_Witness ==
    /\ ret.call = "generate"
    /\ run_lrs /\ run_hrs
    /\ Len(distinct_snr_definitions) = 2
    /\ Len(ret.template_numbers) = 2
    /\ ~ret.spectra_list[1].cont /\ ret.spectra_list[2].cont
    /\ ExpectedSignalNames("LRS", ret.template_numbers[1])
          # ExpectedSignalNames("HRS", ret.template_numbers[1])
    /\ ExpectedSignalNames("HRS", ret.template_numbers[2]) # {}

\* C22: a call of process_spectra, whether it returns or raises, leaves the
\* process in the working directory it was in when the call started.
C22_WorkingDirectoryRestored ==
    [][ret'.call = "process" /\ calls' = calls + 1 => cwd' = cwd]_vars

\* process_spectra that fails on the missing binary leaves the working
\* directory alone (the assertion precedes the chdir).
C22_MissingBinaryKeepsDirectory ==
    [][ret'.call = "process" /\ calls' = calls + 1 /\ ret'.exc = "AssertionError"
          => cwd' = cwd]_vars

\* process_spectra that returns leaves the working directory alone.
C22_ReturnKeepsDirectory ==
    [][ret'.call = "process" /\ calls' = calls + 1 /\ ret'.status = "ok" => cwd' = cwd]_vars

\* The flux arrays the caller's spectra hold.
InputFlux == [r \in ArrayRefs |-> heap[r]]

\* The operations that generate templates.
TemplateOperations == {"make", "generate", "process"}

\* C21: a call of make_fits_spectral_template, and hence one of
\* generate_4fs_template_list, leaves the flux values of every input spectrum
\* and of every continuum companion as they were before the call.
C21_InputSpectraUnchanged ==
    [][done'.op \in TemplateOperations /\ done'.step = done.step + 1
          => InputFlux' = InputFlux]_vars

\* The companions' flux values are never written.
C21_CompanionUnchanged ==
    [][done'.op \in TemplateOperations /\ done'.step = done.step + 1
          => heap'[ContinuumFluxRef(2)] = heap[ContinuumFluxRef(2)]]_vars

\* What a template file holds when it is computed from the flux the caller
\* handed over: that flux, or its quotient by the companion's, at the
\* reference magnitude.
FromOriginalFlux(star, continuum_only) ==
    IF continuum_only /\ ContinuumFluxRef(star) \in ArrayRefs
    THEN Scaled([x \in DOMAIN CallerValues(FluxRef(star)) |->
                   FracDiv(CallerValues(FluxRef(star))[x],
                           CallerValues(ContinuumFluxRef(star))[x])],
                ScaleFactor([x \in DOMAIN CallerValues(FluxRef(star)) |->
                   FracDiv(CallerValues(FluxRef(star))[x],
                           CallerValues(ContinuumFluxRef(star))[x])]))
    ELSE Scaled(CallerValues(FluxRef(star)), ScaleFactor(CallerValues(FluxRef(star))))

\* In exact arithmetic every template file holds the values computed from
\* the original flux, whatever was multiplied into the input array before.
C21_TemplateContentFromOriginalFlux ==
    \A d \in DOMAIN tmp : \A f \in DOMAIN tmp[d].templates :
        tmp[d].templates[f].data
          = FromOriginalFlux(tmp[d].templates[f].star, tmp[d].templates[f].continuum_only)

====
